---- MODULE Spec2Model ----
(***************************************************************************)
(* TaskPlanner (howmon/taskplanner): GitHub issues as a task store.        *)
(*                                                                         *)
(* src/src/core/ghcli.js holds the gh wrapper (lines 1-137), the AI        *)
(* planner (139-341), the Octokit version of github.js (343-780) and the   *)
(* gh CLI version of github.js (782-1255).  Where the two versions of      *)
(* github.js differ both are modelled and the variable transport selects   *)
(* one; where they are the same text one definition stands for both.       *)
(*                                                                         *)
(* Text is modelled as a sequence of one-character strings, so that        *)
(* formatting, parsing, trimming and prefix tests are computed as the      *)
(* code computes them.                                                     *)
(*                                                                         *)
(* Specifications: Spec (the repository API called in any order against    *)
(* one remote store), SpecBoard (getBoardData between writes), SpecCreate  *)
(* (createTask, then listTasks by status), SpecUpdate (updateTask, one     *)
(* field at a time), SpecRace (updateTask in its read and write steps      *)
(* with a second writer), SpecSort (the order listTasks returns),          *)
(* SpecViews (getMyDayTasks over stores of created tasks), SpecStats       *)
(* (getAnalytics), SpecProvision (initializeRepo), SpecPlan (planMyDay     *)
(* and simpleDayPlan), SpecShape (issueToTask over the shapes of a raw     *)
(* issue), SpecFail (the API with failing remote requests), SpecNoted      *)
(* (updateTask on bodies with an unknown metadata key), SpecReopen         *)
(* (complete, then reopen), SpecCodec (the front-matter codec) and         *)
(* SpecLabels (the label helpers).                                         *)
(***************************************************************************)
EXTENDS Integers, Sequences, FiniteSets, TLC

VARIABLES
    transport,  \* "octokit" | "gh": which version of github.js is running
    c_pc,       \* codec harness: "in" | "built" | "parsed" | "off"
    c_meta,     \* codec harness: the metadata object handed to buildYamlFrontMatter
    c_desc,     \* codec harness: the description handed to buildYamlFrontMatter
    c_body,     \* codec harness: the body buildYamlFrontMatter returned
    c_out,      \* codec harness: what parseYamlFrontMatter returned for c_body
    l_pc,       \* label harness: "in" | "done" | "off"
    l_in,       \* label harness: the label names handed to the label helpers
    l_out,      \* label harness: the status, priority and user labels returned
    issues,     \* remote store: the issues, issue number n at index n
    milestones, \* remote store: the numbers of the milestones that exist
    repoLabels, \* remote store: the repository's labels, each [name, color, description]
    ops,        \* the number of calls made to the repository API so far
    upd,        \* updateTask between its read and its write: the call and what it read
    ret         \* the last call of the repository API and what it returned

codecVars == <<c_pc, c_meta, c_desc, c_body, c_out>>

labelVars == <<l_pc, l_in, l_out>>

storeVars == <<issues, milestones, repoLabels, ops, upd, ret>>

vars == <<transport, codecVars, labelVars, storeVars>>

Transports == {"octokit", "gh"}

(***************************************************************************)
(* Text helpers (JavaScript String methods).                               *)
(***************************************************************************)
S_delim == <<"-", "-", "-">>
S_priority == <<"p", "r", "i", "o", "r", "i", "t", "y">>
S_due_date == <<"d", "u", "e", "_", "d", "a", "t", "e">>
S_estimated_hours == <<"e", "s", "t", "i", "m", "a", "t", "e", "d", "_", "h", "o", "u", "r", "s">>
S_actual_hours == <<"a", "c", "t", "u", "a", "l", "_", "h", "o", "u", "r", "s">>
S_tags == <<"t", "a", "g", "s">>
S_my_day == <<"m", "y", "_", "d", "a", "y">>
S_parent_task == <<"p", "a", "r", "e", "n", "t", "_", "t", "a", "s", "k">>
S_true == <<"t", "r", "u", "e">>
S_false == <<"f", "a", "l", "s", "e">>
S_null == <<"n", "u", "l", "l">>
S_tp == <<"t", "p", ":">>

NL == "\n"

Digits == <<"0", "1", "2", "3", "4", "5", "6", "7", "8", "9">>

DigitSet == {Digits[i] : i \in 1..10}

Letters ==
    {"a", "b", "c", "d", "e", "f", "g", "h", "i", "j", "k", "l", "m",
     "n", "o", "p", "q", "r", "s", "t", "u", "v", "w", "x", "y", "z",
     "A", "B", "C", "D", "E", "F", "G", "H", "I", "J", "K", "L", "M",
     "N", "O", "P", "Q", "R", "S", "T", "U", "V", "W", "X", "Y", "Z"}

\* the regular expression class \w
WordChars == Letters \cup DigitSet \cup {"_"}

\* the regular expression class \s, and what String.prototype.trim strips
WhiteSpace == {" ", NL, "\t"}

Min(S) == CHOOSE x \in S : \A y \in S : x <= y

Max(S) == CHOOSE x \in S : \A y \in S : x >= y

StartsWith(s, p) == Len(s) >= Len(p) /\ SubSeq(s, 1, Len(p)) = p

EndsWith(s, p) == Len(s) >= Len(p) /\ SubSeq(s, Len(s) - Len(p) + 1, Len(s)) = p

\* String.prototype.trim
Trim(s) ==
    LET ink == {i \in 1..Len(s) : s[i] \notin WhiteSpace}
    IN  IF ink = {} THEN <<>> ELSE SubSeq(s, Min(ink), Max(ink))

\* String.prototype.indexOf(pat, from), 1-based; 0 when pat does not occur
IndexOf(s, pat, from) ==
    LET hits == {i \in from..(Len(s) - Len(pat) + 1) :
                    \A k \in 1..Len(pat) : s[i + k - 1] = pat[k]}
    IN  IF hits = {} THEN 0 ELSE Min(hits)

\* the places of the character c in s
Places(s, c) == {i \in 1..Len(s) : s[i] = c}

RECURSIVE SplitAt(_, _, _)
SplitAt(s, from, places) ==
    IF places = {} THEN <<SubSeq(s, from, Len(s))>>
    ELSE <<SubSeq(s, from, Min(places) - 1)>>
         \o SplitAt(s, Min(places) + 1, places \ {Min(places)})

\* String.prototype.split(c) for a one-character separator
Split(s, c) == SplitAt(s, 1, Places(s, c))

RECURSIVE Join(_, _)
\* Array.prototype.join(sep) of an array of strings
Join(list, sep) ==
    IF list = <<>> THEN <<>>
    ELSE IF Len(list) = 1 THEN list[1]
    ELSE list[1] \o sep \o Join(Tail(list), sep)

AllDigits(s) == \A i \in 1..Len(s) : s[i] \in DigitSet

DigitValue(c) == CHOOSE d \in 0..9 : Digits[d + 1] = c

RECURSIVE IntToStr(_)
\* the decimal rendering of a non-negative integer
IntToStr(n) ==
    IF n < 10 THEN <<Digits[n + 1]>>
    ELSE IntToStr(n \div 10) \o <<Digits[(n % 10) + 1]>>

RECURSIVE StrToInt(_)
\* parseInt(s, 10) of a string of digits
StrToInt(s) ==
    IF s = <<>> THEN 0
    ELSE 10 * StrToInt(SubSeq(s, 1, Len(s) - 1)) + DigitValue(s[Len(s)])

RECURSIVE StripZeros(_)
\* a fraction's digits without trailing zeros: 2.50 and 2.5 are one number
StripZeros(f) ==
    IF f # <<>> /\ f[Len(f)] = "0" THEN StripZeros(SubSeq(f, 1, Len(f) - 1)) ELSE f

SelectSeqNonEmpty(list) == SelectSeq(list, LAMBDA x : x # <<>>)

MapTrim(list) == [i \in 1..Len(list) |-> Trim(list[i])]

(***************************************************************************)
(* JavaScript values held in a metadata object.  Every value carries all   *)
(* fields so that two values are equal exactly when they are the same      *)
(* JavaScript value: t is the type, b a boolean, n and f a number's        *)
(* integer part and fraction digits, s a string, l an array of strings.    *)
(***************************************************************************)
VUndef == [t |-> "undefined", b |-> FALSE, n |-> 0, f |-> <<>>, s |-> <<>>, l |-> <<>>]

VNull == [t |-> "null", b |-> FALSE, n |-> 0, f |-> <<>>, s |-> <<>>, l |-> <<>>]

VBool(x) == [t |-> "boolean", b |-> x, n |-> 0, f |-> <<>>, s |-> <<>>, l |-> <<>>]

VNum(i, frac) == [t |-> "number", b |-> FALSE, n |-> i, f |-> frac, s |-> <<>>, l |-> <<>>]

VInt(i) == VNum(i, <<>>)

VStr(x) == [t |-> "string", b |-> FALSE, n |-> 0, f |-> <<>>, s |-> x, l |-> <<>>]

VList(x) == [t |-> "array", b |-> FALSE, n |-> 0, f |-> <<>>, s |-> <<>>, l |-> x]

\* ToBoolean: what `if (v)` and `v || d` test
Truthy(v) ==
    CASE v.t = "boolean" -> v.b
      [] v.t = "number" -> v.n # 0 \/ v.f # <<>>
      [] v.t = "string" -> v.s # <<>>
      [] v.t = "array" -> TRUE
      [] OTHER -> FALSE

\* ToString: what a template literal `${v}` renders
ToStr(v) ==
    CASE v.t = "boolean" -> IF v.b THEN S_true ELSE S_false
      [] v.t = "number" -> IF v.f = <<>> THEN IntToStr(v.n) ELSE IntToStr(v.n) \o <<".">> \o v.f
      [] v.t = "string" -> v.s
      [] v.t = "array" -> Join(v.l, <<",">>)
      [] v.t = "null" -> S_null
      [] OTHER -> <<"u", "n", "d", "e", "f", "i", "n", "e", "d">>

(***************************************************************************)
(* A JavaScript object with string keys: the entries in insertion order.   *)
(***************************************************************************)
Keys(obj) == {obj[i].k : i \in 1..Len(obj)}

Get(obj, key) ==
    IF key \in Keys(obj)
    THEN obj[CHOOSE i \in 1..Len(obj) : obj[i].k = key].v
    ELSE VUndef

\* obj[key] = val: an existing key keeps its place, a new key goes last
Set(obj, key, val) ==
    IF key \in Keys(obj)
    THEN [i \in 1..Len(obj) |-> IF obj[i].k = key THEN [k |-> key, v |-> val] ELSE obj[i]]
    ELSE Append(obj, [k |-> key, v |-> val])

\* deep equality of two objects (the order of the keys does not count)
SameObject(a, b) == Keys(a) = Keys(b) /\ \A key \in Keys(a) : Get(a, key) = Get(b, key)

(***************************************************************************)
(* YAML front matter: parseYamlFrontMatter and buildYamlFrontMatter.       *)
(***************************************************************************)
\* body.match(/^---\n([\s\S]*?)\n---\n?([\s\S]*)$/): the opening line, the
\* shortest text up to the first "\n---" after it, an optional line break, the rest
FrontMatterMatch(body) ==
    LET open == S_delim \o <<NL>>
        close == IF StartsWith(body, open) THEN IndexOf(body, <<NL>> \o S_delim, Len(open) + 1) ELSE 0
        after == close + Len(S_delim) + 1
        skip == IF after <= Len(body) /\ body[after] = NL THEN after + 1 ELSE after
    IN  IF close = 0
        THEN [matched |-> FALSE, yaml |-> <<>>, rest |-> <<>>]
        ELSE [matched |-> TRUE,
              yaml |-> SubSeq(body, Len(open) + 1, close - 1),
              rest |-> SubSeq(body, skip, Len(body))]

\* the scalar coercion of the Octokit version
CoerceOctokit(value) ==
    LET parts == Split(value, ".")
    IN  IF value = S_true THEN VBool(TRUE)
        ELSE IF value = S_false THEN VBool(FALSE)
        ELSE IF value = S_null \/ value = <<>> THEN VNull
        ELSE IF AllDigits(value) THEN VInt(StrToInt(value))
        ELSE IF Len(parts) = 2 /\ parts[1] # <<>> /\ parts[2] # <<>>
                /\ AllDigits(parts[1]) /\ AllDigits(parts[2])
             THEN VNum(StrToInt(parts[1]), StripZeros(parts[2]))
        ELSE IF StartsWith(value, <<"[">>) /\ EndsWith(value, <<"]">>)
             THEN VList(SelectSeqNonEmpty(MapTrim(Split(SubSeq(value, 2, Len(value) - 1), ","))))
        ELSE VStr(value)

\* line.match(/^(\w+):\s*(.*)$/): a run of word characters, then a colon
LineOctokit(line) ==
    LET stop == {i \in 1..Len(line) : line[i] \notin WordChars}
        colon == IF stop = {} THEN 0 ELSE Min(stop)
    IN  IF colon > 1 /\ line[colon] = ":"
        THEN [matched |-> TRUE, key |-> SubSeq(line, 1, colon - 1),
              value |-> Trim(SubSeq(line, colon + 1, Len(line)))]
        ELSE [matched |-> FALSE, key |-> <<>>, value |-> <<>>]

RECURSIVE ParseLinesOctokit(_, _)
ParseLinesOctokit(lines, meta) ==
    IF lines = <<>> THEN meta
    ELSE LET kv == LineOctokit(lines[1])
         IN  ParseLinesOctokit(Tail(lines),
                 IF kv.matched THEN Set(meta, kv.key, CoerceOctokit(kv.value)) ELSE meta)

parseYamlFrontMatter_octokit(body) ==
    LET m == FrontMatterMatch(body)
    IN  IF body = <<>> THEN [meta |-> <<>>, description |-> <<>>]
        ELSE IF ~m.matched THEN [meta |-> <<>>, description |-> body]
        ELSE [meta |-> ParseLinesOctokit(Split(m.yaml, NL), <<>>), description |-> Trim(m.rest)]

\* !isNaN(value): Number(value) is a number.  Of the numeric literals only the
\* plain decimal ones are modelled (digits, digits.digits, digits., .digits); no
\* text drawn here is a signed, exponent, hexadecimal or Infinity literal.
IsNumericGh(value) ==
    LET parts == Split(value, ".")
    IN  /\ Len(parts) \in {1, 2}
        /\ \A i \in 1..Len(parts) : AllDigits(parts[i])
        /\ \E i \in 1..Len(parts) : parts[i] # <<>>

NumberGh(value) ==
    LET parts == Split(value, ".")
    IN  VNum(StrToInt(parts[1]), IF Len(parts) = 2 THEN StripZeros(parts[2]) ELSE <<>>)

\* the scalar coercion of the gh CLI version: no list form
CoerceGh(value) ==
    IF value = S_true THEN VBool(TRUE)
    ELSE IF value = S_false THEN VBool(FALSE)
    ELSE IF value = S_null \/ value = <<>> THEN VNull
    ELSE IF IsNumericGh(value) THEN NumberGh(value)
    ELSE VStr(value)

\* idx = line.indexOf(':'); key and value are the trimmed halves
LineGh(line) ==
    LET idx == IndexOf(line, <<":">>, 1)
    IN  IF idx = 0 THEN [matched |-> FALSE, key |-> <<>>, value |-> <<>>]
        ELSE [matched |-> TRUE, key |-> Trim(SubSeq(line, 1, idx - 1)),
              value |-> Trim(SubSeq(line, idx + 1, Len(line)))]

RECURSIVE ParseLinesGh(_, _)
ParseLinesGh(lines, meta) ==
    IF lines = <<>> THEN meta
    ELSE LET kv == LineGh(lines[1])
         IN  ParseLinesGh(Tail(lines),
                 IF kv.matched THEN Set(meta, kv.key, CoerceGh(kv.value)) ELSE meta)

parseYamlFrontMatter_gh(body) ==
    LET m == FrontMatterMatch(body)
    IN  IF body = <<>> THEN [meta |-> <<>>, description |-> <<>>]
        ELSE IF ~m.matched THEN [meta |-> <<>>, description |-> body]
        ELSE [meta |-> ParseLinesGh(Split(m.yaml, NL), <<>>), description |-> Trim(m.rest)]

parseYamlFrontMatter(body) ==
    IF transport = "octokit" THEN parseYamlFrontMatter_octokit(body)
    ELSE parseYamlFrontMatter_gh(body)

KeyLine(key, text) == key \o <<":", " ">> \o text

\* meta.tags?.length is a positive number: a non-empty array or string
HasLength(v) == (v.t = "array" /\ v.l # <<>>) \/ (v.t = "string" /\ v.s # <<>>)

\* meta.tags.join is not a function: the Octokit version throws a TypeError
buildThrows_octokit(meta) == Get(meta, S_tags).t = "string" /\ Get(meta, S_tags).s # <<>>

\* the Octokit version writes the seven known keys in a fixed order
buildYamlFrontMatter_octokit(meta, description) ==
    LET pr == Get(meta, S_priority)
        dd == Get(meta, S_due_date)
        eh == Get(meta, S_estimated_hours)
        ah == Get(meta, S_actual_hours)
        tg == Get(meta, S_tags)
        md == Get(meta, S_my_day)
        pt == Get(meta, S_parent_task)
        lines ==
            <<S_delim>>
            \o (IF Truthy(pr) THEN <<KeyLine(S_priority, ToStr(pr))>> ELSE <<>>)
            \o (IF Truthy(dd) THEN <<KeyLine(S_due_date, ToStr(dd))>> ELSE <<>>)
            \o <<KeyLine(S_estimated_hours, IF Truthy(eh) THEN ToStr(eh) ELSE <<"0">>)>>
            \o <<KeyLine(S_actual_hours, IF Truthy(ah) THEN ToStr(ah) ELSE <<"0">>)>>
            \o (IF HasLength(tg)
                THEN <<KeyLine(S_tags, <<"[">> \o Join(tg.l, <<",", " ">>) \o <<"]">>)>>
                ELSE <<>>)
            \o <<KeyLine(S_my_day, IF Truthy(md) THEN ToStr(md) ELSE S_false)>>
            \o (IF Truthy(pt) THEN <<KeyLine(S_parent_task, ToStr(pt))>> ELSE <<>>)
            \o <<S_delim, <<>>, description>>
    IN  Join(lines, <<NL>>)

\* the gh CLI version writes every entry of meta, an array without brackets
EntryLineGh(e) ==
    IF e.v.t = "array" THEN KeyLine(e.k, Join(e.v.l, <<",", " ">>)) ELSE KeyLine(e.k, ToStr(e.v))

buildYamlFrontMatter_gh(meta, description) ==
    Join(<<S_delim>> \o [i \in 1..Len(meta) |-> EntryLineGh(meta[i])]
         \o <<S_delim, <<>>, description>>, <<NL>>)

buildThrows(meta) == transport = "octokit" /\ buildThrows_octokit(meta)

buildYamlFrontMatter(meta, description) ==
    IF transport = "octokit" THEN buildYamlFrontMatter_octokit(meta, description)
    ELSE buildYamlFrontMatter_gh(meta, description)

(***************************************************************************)
(* Labels: STATUS_LABELS, PRIORITY_LABELS and the helpers that read them.  *)
(* A label list is the list of its names (labels.map(l => l.name)).        *)
(***************************************************************************)
L_todo == <<"t", "p", ":", "t", "o", "d", "o">>
L_in_progress == <<"t", "p", ":", "i", "n", "-", "p", "r", "o", "g", "r", "e", "s", "s">>
L_done == <<"t", "p", ":", "d", "o", "n", "e">>
L_blocked == <<"t", "p", ":", "b", "l", "o", "c", "k", "e", "d">>
L_urgent == <<"t", "p", ":", "u", "r", "g", "e", "n", "t">>
L_high == <<"t", "p", ":", "h", "i", "g", "h">>
L_medium == <<"t", "p", ":", "m", "e", "d", "i", "u", "m">>
L_low == <<"t", "p", ":", "l", "o", "w">>

\* Object.keys(STATUS_LABELS), in declaration order
StatusOrder == <<"todo", "in-progress", "done", "blocked">>

\* Object.keys(PRIORITY_LABELS), in declaration order
PriorityOrder == <<"urgent", "high", "medium", "low">>

Statuses == {StatusOrder[i] : i \in 1..Len(StatusOrder)}

Priorities == {PriorityOrder[i] : i \in 1..Len(PriorityOrder)}

STATUS_LABELS ==
    [s \in Statuses |->
        CASE s = "todo" -> L_todo
          [] s = "in-progress" -> L_in_progress
          [] s = "done" -> L_done
          [] s = "blocked" -> L_blocked]

PRIORITY_LABELS ==
    [p \in Priorities |->
        CASE p = "urgent" -> L_urgent
          [] p = "high" -> L_high
          [] p = "medium" -> L_medium
          [] p = "low" -> L_low]

\* Object.values(STATUS_LABELS), Object.values(PRIORITY_LABELS)
StatusLabelNames == {STATUS_LABELS[s] : s \in Statuses}

PriorityLabelNames == {PRIORITY_LABELS[p] : p \in Priorities}

Includes(list, x) == \E i \in 1..Len(list) : list[i] = x

\* a scan of the label list instead of STATUS_LABELS: the first status label of the list wins
getStatusFromLabels_listOrder(labels) ==
    LET hit == {i \in 1..Len(labels) : labels[i] \in StatusLabelNames}
    IN  IF hit = {} THEN "todo"
        ELSE CHOOSE s \in Statuses : STATUS_LABELS[s] = labels[Min(hit)]

\* the first status, in declaration order, whose label is in the list
getStatusFromLabels(labels) ==
    LET hit == {i \in 1..Len(StatusOrder) : Includes(labels, STATUS_LABELS[StatusOrder[i]])}
    IN  IF hit = {} THEN "todo" ELSE StatusOrder[Min(hit)]

getPriorityFromLabels(labels) ==
    LET hit == {i \in 1..Len(PriorityOrder) : Includes(labels, PRIORITY_LABELS[PriorityOrder[i]])}
    IN  IF hit = {} THEN "medium" ELSE PriorityOrder[Min(hit)]

IsUserLabel(n) == ~StartsWith(n, S_tp)

\* a filter on the eight fixed names instead of the prefix
getUserLabels_fixedNames(labels) ==
    SelectSeq(labels, LAMBDA n : n \notin StatusLabelNames \cup PriorityLabelNames)

getUserLabels(labels) == SelectSeq(labels, IsUserLabel)

(***************************************************************************)
(* The repository's labels and initializeRepo.  A label is [name, color,   *)
(* description]; the remote keeps one label per name.                      *)
(***************************************************************************)
\* Object.values({...STATUS_LABELS, ...PRIORITY_LABELS}), in declaration order
AllLabels ==
    [i \in 1..Len(StatusOrder) |-> STATUS_LABELS[StatusOrder[i]]]
    \o [i \in 1..Len(PriorityOrder) |-> PRIORITY_LABELS[PriorityOrder[i]]]

LABEL_COLORS ==
    [n \in {AllLabels[i] : i \in 1..Len(AllLabels)} |->
        CASE n = L_todo -> "0075ca" [] n = L_in_progress -> "fbca04"
          [] n = L_done -> "0e8a16" [] n = L_blocked -> "d73a4a"
          [] n = L_urgent -> "b60205" [] n = L_high -> "d93f0b"
          [] n = L_medium -> "fbca04" [] n = L_low -> "0e8a16"]

LABEL_DESCRIPTIONS ==
    [n \in {AllLabels[i] : i \in 1..Len(AllLabels)} |->
        CASE n = L_todo -> "Task is in backlog / to do"
          [] n = L_in_progress -> "Task is currently being worked on"
          [] n = L_done -> "Task is completed" [] n = L_blocked -> "Task is blocked"
          [] n = L_urgent -> "Urgent priority" [] n = L_high -> "High priority"
          [] n = L_medium -> "Medium priority" [] n = L_low -> "Low priority"]

\* the label initializeRepo asks the remote to make for a fixed name
FixedLabel(n) == [name |-> n, color |-> LABEL_COLORS[n], description |-> LABEL_DESCRIPTIONS[n]]

NamesOf(labels) == [i \in 1..Len(labels) |-> labels[i].name]

NameSet(labels) == {labels[i].name : i \in 1..Len(labels)}

\* listLabelsForRepo({per_page: 100}) returns the first page only
PerPage == 100

FirstPage(labels) == SubSeq(labels, 1, IF Len(labels) < PerPage THEN Len(labels) ELSE PerPage)

\* Octokit version: the names missing from the page are created one by one; the
\* remote rejects (422) a name it already has, and the call throws there
initializeRepo_octokit(labels) ==
    LET existingNames == NamesOf(FirstPage(labels))
        missing == SelectSeq(AllLabels, LAMBDA n : \A i \in 1..Len(existingNames) : existingNames[i] # n)
        refused == {i \in 1..Len(missing) : missing[i] \in NameSet(labels)}
        made == IF refused = {} THEN missing ELSE SubSeq(missing, 1, Min(refused) - 1)
    IN  [labels |-> labels \o [i \in 1..Len(made) |-> FixedLabel(made[i])],
         err |-> refused # {},
         created |-> made,
         existing |-> SelectSeq(existingNames, LAMBDA n : StartsWith(n, S_tp))]

\* gh label create --force: a label of that name is updated, else one is made
CreateForce(labels, label) ==
    IF label.name \in NameSet(labels)
    THEN [i \in 1..Len(labels) |-> IF labels[i].name = label.name THEN label ELSE labels[i]]
    ELSE Append(labels, label)

RECURSIVE ForceAll(_, _)
\* the remote's labels after create --force for the first k fixed names
ForceAll(labels, k) ==
    IF k = 0 THEN labels ELSE CreateForce(ForceAll(labels, k - 1), FixedLabel(AllLabels[k]))

\* gh CLI version: every fixed name is pushed to created when its command succeeds
initializeRepo_gh(labels) ==
    LET after == ForceAll(labels, Len(AllLabels))
    IN  [labels |-> after,
         err |-> FALSE,
         created |-> AllLabels,
         existing |-> SelectSeq(NamesOf(after), LAMBDA n : StartsWith(n, S_tp))]

initializeRepo(labels) ==
    IF transport = "gh" THEN initializeRepo_gh(labels) ELSE initializeRepo_octokit(labels)

\* the labels of a repository initializeRepo has set up
Provisioned == [i \in 1..Len(AllLabels) |-> FixedLabel(AllLabels[i])]

(***************************************************************************)
(* The remote store and the repository functions over it.                  *)
(*                                                                         *)
(* An issue is [number, title, body, labels, state, state_reason,          *)
(* assignees, milestone]: labels a list of names, state "open" or          *)
(* "closed", state_reason "" (never closed), "completed", "not_planned" or *)
(* "reopened", milestone a milestone number or 0 for none.  A Task's       *)
(* sprint_id is 0 where the code has null; an absent login is "".          *)
(***************************************************************************)
NoRet == [op |-> "none"]

NoUpd == [busy |-> FALSE, raced |-> FALSE]

StoreOff ==
    /\ issues = <<>>
    /\ milestones = {}
    /\ repoLabels = <<>>
    /\ ops = 0
    /\ upd = NoUpd
    /\ ret = NoRet

\* the text of an enum key: its label name without the tp: prefix
EnumText(label) == SubSeq(label, Len(S_tp) + 1, Len(label))

OrElse(v, d) == IF Truthy(v) THEN v ELSE d

\* the priority of a Task: getPriorityFromLabels never returns an empty value, so
\* the fallbacks `|| meta.priority || 'medium'` are never taken
issueToTask(issue) ==
    LET parsed == parseYamlFrontMatter(issue.body)
        meta == parsed.meta
    IN  [id |-> issue.number,
         title |-> issue.title,
         body |-> parsed.description,
         status |-> getStatusFromLabels(issue.labels),
         priority |-> getPriorityFromLabels(issue.labels),
         due_date |-> OrElse(Get(meta, S_due_date), VNull),
         labels |-> getUserLabels(issue.labels),
         assignee |-> IF issue.assignees = <<>> THEN "" ELSE issue.assignees[1],
         sprint_id |-> issue.milestone,
         my_day |-> OrElse(Get(meta, S_my_day), VBool(FALSE)),
         estimated_hours |-> OrElse(Get(meta, S_estimated_hours), VInt(0)),
         actual_hours |-> OrElse(Get(meta, S_actual_hours), VInt(0)),
         tags |-> OrElse(Get(meta, S_tags), VList(<<>>)),
         parent_task |-> OrElse(Get(meta, S_parent_task), VNull)]

\* createTask's options after the destructuring defaults
DefaultOptions ==
    [priority |-> "medium", status |-> "todo", due_date |-> VNull, assignee |-> "",
     sprint_id |-> 0, description |-> <<>>, my_day |-> VBool(FALSE),
     estimated_hours |-> VInt(0), tags |-> VList(<<>>), parent_task |-> VNull]

\* a request body that leaves the status label out
createPayload_unlabelled(title, options) ==
    [title |-> title,
     body |-> buildYamlFrontMatter(<<>>, options.description),
     labels |-> <<PRIORITY_LABELS[options.priority]>>,
     assignees |-> <<>>,
     milestone |-> options.sprint_id]

\* the request body createTask posts
createPayload(title, options) ==
    LET meta == <<[k |-> S_priority, v |-> VStr(EnumText(PRIORITY_LABELS[options.priority]))],
                  [k |-> S_due_date, v |-> options.due_date],
                  [k |-> S_estimated_hours, v |-> options.estimated_hours],
                  [k |-> S_actual_hours, v |-> VInt(0)],
                  [k |-> S_tags, v |-> options.tags],
                  [k |-> S_my_day, v |-> options.my_day],
                  [k |-> S_parent_task, v |-> options.parent_task]>>
    IN  [title |-> title,
         body |-> buildYamlFrontMatter(meta, options.description),
         labels |-> <<STATUS_LABELS[options.status], PRIORITY_LABELS[options.priority]>>,
         assignees |-> IF options.assignee # "" THEN <<options.assignee>> ELSE <<>>,
         milestone |-> options.sprint_id]

\* POST /issues: the new issue is open; an unknown milestone is rejected (422)
RemoteRejectsMilestone(ms, n) == n # 0 /\ n \notin ms

NewIssue(number, payload) ==
    [number |-> number, title |-> payload.title, body |-> payload.body,
     labels |-> payload.labels, state |-> "open", state_reason |-> "",
     assignees |-> payload.assignees, milestone |-> payload.milestone]

Has(updates, field) == field \in DOMAIN updates

\* the state field of the issue updateTask reads: the REST API (Octokit) gives
\* "open"/"closed"; `gh issue view --json state` gives the GraphQL enum, "OPEN"/"CLOSED"
ViewState(issue) ==
    IF transport = "octokit" THEN issue.state
    ELSE IF issue.state = "open" THEN "OPEN" ELSE "CLOSED"

\* updateTask, steps 2 to 4: the labels, the metadata and the PATCH body computed
\* from the issue that was read (current) and the updates
updateMeta(meta, updates) ==
    LET m1 == IF Has(updates, "priority")
              THEN Set(meta, S_priority, VStr(EnumText(PRIORITY_LABELS[updates.priority])))
              ELSE meta
        m2 == IF Has(updates, "due_date") THEN Set(m1, S_due_date, updates.due_date) ELSE m1
        m3 == IF Has(updates, "my_day") THEN Set(m2, S_my_day, updates.my_day) ELSE m2
        m4 == IF Has(updates, "estimated_hours")
              THEN Set(m3, S_estimated_hours, updates.estimated_hours) ELSE m3
        m5 == IF Has(updates, "actual_hours")
              THEN Set(m4, S_actual_hours, updates.actual_hours) ELSE m4
        m6 == IF Has(updates, "tags") /\ Truthy(updates.tags)
              THEN Set(m5, S_tags, updates.tags) ELSE m5
    IN  IF Has(updates, "parent_task") THEN Set(m6, S_parent_task, updates.parent_task) ELSE m6

\* labels that are added to and never replaced
updateLabels_keep(labels, updates) ==
    LET l1 == IF Has(updates, "status") THEN Append(labels, STATUS_LABELS[updates.status])
              ELSE labels
    IN  IF Has(updates, "priority") THEN Append(l1, PRIORITY_LABELS[updates.priority]) ELSE l1

updateLabels(labels, updates) ==
    LET l1 == IF Has(updates, "status")
              THEN Append(SelectSeq(labels, LAMBDA l : l \notin StatusLabelNames),
                          STATUS_LABELS[updates.status])
              ELSE labels
    IN  IF Has(updates, "priority")
        THEN Append(SelectSeq(l1, LAMBDA l : l \notin PriorityLabelNames),
                    PRIORITY_LABELS[updates.priority])
        ELSE l1

\* a PATCH that never asks for a state
updateState_none(current, updates) == ""

\* the state the PATCH asks for: "closed" (completed), "open", or "" for none
updateState(current, updates) ==
    IF Has(updates, "status") /\ updates.status = "done" THEN "closed"
    ELSE IF Has(updates, "status") /\ updates.status # "done" /\ ViewState(current) = "closed"
         THEN "open"
    ELSE ""

updatePayload(current, updates) ==
    LET parsed == parseYamlFrontMatter(current.body)
        meta == updateMeta(parsed.meta, updates)
    IN  [title |-> IF Has(updates, "title") /\ updates.title # "" THEN updates.title
                   ELSE current.title,
         body |-> buildYamlFrontMatter(meta,
                     IF Has(updates, "description") THEN updates.description
                     ELSE parsed.description),
         labels |-> updateLabels(current.labels, updates),
         state |-> updateState(current, updates),
         setAssignees |-> Has(updates, "assignee"),
         assignees |-> IF Has(updates, "assignee") /\ updates.assignee # ""
                       THEN <<updates.assignee>> ELSE <<>>,
         setMilestone |-> Has(updates, "sprint_id"),
         milestone |-> IF Has(updates, "sprint_id") THEN updates.sprint_id ELSE 0]

\* buildYamlFrontMatter throws inside updateTask
updateThrows(current, updates) ==
    buildThrows(updateMeta(parseYamlFrontMatter(current.body).meta, updates))

\* PATCH /issues/n: title, body and labels are replaced; state, assignees and
\* milestone only when the request names them
ApplyPatch(issue, payload) ==
    [issue EXCEPT
        !.title = payload.title,
        !.body = payload.body,
        !.labels = payload.labels,
        !.state = IF payload.state = "" THEN @ ELSE payload.state,
        !.state_reason =
            IF payload.state = "closed" THEN "completed"
            ELSE IF payload.state = "open" /\ issue.state = "closed" THEN "reopened"
            ELSE @,
        !.assignees = IF payload.setAssignees THEN payload.assignees ELSE @,
        !.milestone = IF payload.setMilestone THEN payload.milestone ELSE @]

\* a delete that also takes the labels off the issue
ApplyClose_unlabel(issue) ==
    [issue EXCEPT !.state = "closed", !.state_reason = "not_planned", !.labels = <<>>]

\* deleteTask: the issue is closed as not planned
ApplyClose(issue) == [issue EXCEPT !.state = "closed", !.state_reason = "not_planned"]

(***************************************************************************)
(* Comparing text: a < b and a.localeCompare(b) on the characters used     *)
(* here, which ASCII orders as below.                                      *)
(***************************************************************************)
CharOrder ==
    <<"\t", NL, " ", ",", "-", ".", "0", "1", "2", "3", "4", "5", "6", "7", "8", "9", ":",
      "A", "B", "C", "D", "E", "F", "G", "H", "I", "J", "K", "L", "M",
      "N", "O", "P", "Q", "R", "S", "T", "U", "V", "W", "X", "Y", "Z", "[", "]", "_",
      "a", "b", "c", "d", "e", "f", "g", "h", "i", "j", "k", "l", "m",
      "n", "o", "p", "q", "r", "s", "t", "u", "v", "w", "x", "y", "z">>

CharCode(c) == CHOOSE i \in 1..Len(CharOrder) : CharOrder[i] = c

\* a < b on two strings
StrLess(a, b) ==
    \E i \in 1..(Len(b)) :
        /\ \A j \in 1..(i - 1) : j <= Len(a) /\ a[j] = b[j]
        /\ (i > Len(a) \/ (i <= Len(a) /\ CharCode(a[i]) < CharCode(b[i])))
        /\ i - 1 <= Len(a)

\* the sign of a.localeCompare(b)
StrCompare(a, b) == IF a = b THEN 0 ELSE IF StrLess(a, b) THEN -1 ELSE 1

\* v < text for a metadata value v: a number or boolean against a date text
\* compares as NaN, which is never less
ValueLess(v, text) ==
    CASE v.t = "string" -> StrLess(v.s, text)
      [] v.t = "array" -> StrLess(ToStr(v), text)
      [] OTHER -> FALSE

ValueIs(v, text) == v.t = "string" /\ v.s = text

(***************************************************************************)
(* listTasks and the views computed from it.                               *)
(***************************************************************************)
\* a filters object; an absent field is "" / 0 / FALSE, which the code treats
\* the same way (every field is tested for truthiness)
NoFilters ==
    [status |-> "", priority |-> "", sprint_id |-> 0, assignee |-> "",
     my_day |-> FALSE, include_done |-> FALSE]

PRIORITY_ORDER == [p \in Priorities |->
    CASE p = "urgent" -> 0 [] p = "high" -> 1 [] p = "medium" -> 2 [] p = "low" -> 3]

\* the state the remote query asks for
listState(filters) ==
    IF filters.status = "done" THEN "closed"
    ELSE IF filters.include_done THEN "all"
    ELSE "open"

\* the labels the remote query asks for (an issue must carry them all)
listLabels(filters) ==
    (IF filters.status # "" /\ filters.status # "done" THEN {STATUS_LABELS[filters.status]} ELSE {})
    \cup (IF filters.priority # "" THEN {PRIORITY_LABELS[filters.priority]} ELSE {})

\* the milestone the remote query asks for, 0 for none.  Octokit passes sprint_id
\* on; the gh CLI version looks the milestone up and, when the lookup fails, goes
\* on without a milestone filter.
listMilestone(filters) ==
    IF transport = "octokit" THEN filters.sprint_id
    ELSE IF filters.sprint_id \in milestones THEN filters.sprint_id
    ELSE 0

\* the remote query: the matching issues, newest first.  A milestone number that
\* names no milestone matches no issue.
RemoteMatches(issue, filters) ==
    /\ listState(filters) \in {"all", issue.state}
    /\ \A l \in listLabels(filters) : Includes(issue.labels, l)
    /\ listMilestone(filters) # 0 => issue.milestone = listMilestone(filters)
    /\ filters.assignee # "" => Includes(issue.assignees, filters.assignee)

RECURSIVE NewestFirst(_, _)
NewestFirst(all, numbers) ==
    IF numbers = {} THEN <<>>
    ELSE <<all[Max(numbers)]>> \o NewestFirst(all, numbers \ {Max(numbers)})

RemoteList(filters) ==
    NewestFirst(issues, {n \in 1..Len(issues) : RemoteMatches(issues[n], filters)})

\* a listing that keeps every issue the remote query returns
IsTaskPlannerIssue_any(issue) == Len(issue.labels) >= 0

\* issue.labels.some(l => l.name.startsWith('tp:'))
IsTaskPlannerIssue(issue) == \E i \in 1..Len(issue.labels) : StartsWith(issue.labels[i], S_tp)

\* a comparator that looks at the priority only
compareTasks_priorityOnly(a, b) ==
    IF PRIORITY_ORDER[a.priority] = PRIORITY_ORDER[b.priority] THEN 0
    ELSE IF PRIORITY_ORDER[a.priority] < PRIORITY_ORDER[b.priority] THEN -1 ELSE 1

\* the sort comparator's sign; the due dates compared are texts or null
compareTasks(a, b) ==
    LET pa == PRIORITY_ORDER[a.priority]
        pb == PRIORITY_ORDER[b.priority]
    IN  IF pa # pb THEN (IF pa < pb THEN -1 ELSE 1)
        ELSE IF Truthy(a.due_date) /\ Truthy(b.due_date) THEN StrCompare(a.due_date.s, b.due_date.s)
        ELSE IF Truthy(a.due_date) THEN -1
        ELSE IF Truthy(b.due_date) THEN 1
        ELSE 0

\* Array.prototype.sort is stable: an element goes after the last one not greater
InsertSorted(sorted, x) ==
    LET le == {j \in 1..Len(sorted) : compareTasks(sorted[j], x) <= 0}
        at == IF le = {} THEN 0 ELSE Max(le)
    IN  SubSeq(sorted, 1, at) \o <<x>> \o SubSeq(sorted, at + 1, Len(sorted))

RECURSIVE SortTasks(_)
SortTasks(tasks) ==
    IF tasks = <<>> THEN <<>>
    ELSE InsertSorted(SortTasks(SubSeq(tasks, 1, Len(tasks) - 1)), tasks[Len(tasks)])

MapTasks(list) == [i \in 1..Len(list) |-> issueToTask(list[i])]

listTasks(filters) ==
    LET fetched == SelectSeq(RemoteList(filters), IsTaskPlannerIssue)
        tasks == MapTasks(fetched)
        mine == IF filters.my_day THEN SelectSeq(tasks, LAMBDA x : Truthy(x.my_day)) ELSE tasks
    IN  SortTasks(mine)

\* lists in which due_today holds every open task due today or later
myDayLists_upcoming(tasks, today) ==
    LET myDayTasks == SelectSeq(tasks, LAMBDA x : Truthy(x.my_day) /\ x.status # "done")
        dueToday == SelectSeq(tasks, LAMBDA x :
                        /\ Truthy(x.due_date) /\ ~ValueLess(x.due_date, today)
                        /\ x.status # "done" /\ ~Truthy(x.my_day))
        overdueTasks == SelectSeq(tasks, LAMBDA x :
                        /\ Truthy(x.due_date) /\ ValueLess(x.due_date, today)
                        /\ x.status # "done" /\ ~Truthy(x.my_day))
    IN  [my_day |-> myDayTasks, due_today |-> dueToday, overdue |-> overdueTasks,
         in_progress |-> <<>>,
         total_focus |-> Len(myDayTasks) + Len(dueToday) + Len(overdueTasks)]

\* the four lists getMyDayTasks makes of the listed tasks
myDayLists(tasks, today) ==
    LET myDayTasks == SelectSeq(tasks, LAMBDA x : Truthy(x.my_day) /\ x.status # "done")
        dueToday == SelectSeq(tasks, LAMBDA x :
                        ValueIs(x.due_date, today) /\ x.status # "done" /\ ~Truthy(x.my_day))
        overdueTasks == SelectSeq(tasks, LAMBDA x :
                        /\ Truthy(x.due_date) /\ ValueLess(x.due_date, today)
                        /\ x.status # "done" /\ ~Truthy(x.my_day))
        inProgress == SelectSeq(tasks, LAMBDA x :
                        x.status = "in-progress" /\ ~Truthy(x.my_day) /\ ~ValueIs(x.due_date, today))
    IN  [my_day |-> myDayTasks, due_today |-> dueToday, overdue |-> overdueTasks,
         in_progress |-> inProgress,
         total_focus |-> Len(myDayTasks) + Len(dueToday) + Len(overdueTasks)]

getMyDayTasks(today) == myDayLists(listTasks(NoFilters), today)

\* a grouping that leaves the completed tasks out of the board
boardColumns_open(tasks) ==
    [s \in {"todo", "in-progress", "blocked", "done"} |->
        SelectSeq(tasks, LAMBDA x : x.status = s /\ s # "done")]

\* the four columns getBoardData fills from the listed tasks: a task goes to the
\* column named by its status, a task with any other status goes nowhere
boardColumns(tasks) ==
    [s \in {"todo", "in-progress", "blocked", "done"} |->
        SelectSeq(tasks, LAMBDA x : x.status = s)]

getBoardData(filters) == boardColumns(listTasks([filters EXCEPT !.include_done = TRUE]))

\* Math.round(x / y * 100) for counts 0 <= x <= y, y > 0, rounding down
RoundPercent_floor(x, y) == (100 * x) \div y

\* Math.round(x / y * 100) for counts 0 <= x <= y, y > 0: the nearest integer,
\* a half goes up (for the small counts used here the quotient in floating
\* point rounds as the exact one does)
RoundPercent(x, y) == (200 * x + y) \div (2 * y)

\* the filters getAnalytics lists with
analyticsFilters(sprintId) ==
    IF sprintId # 0 THEN [NoFilters EXCEPT !.sprint_id = sprintId, !.include_done = TRUE]
    ELSE [NoFilters EXCEPT !.include_done = TRUE]

\* the figures getAnalytics computes from the listed tasks; today is the UTC day
analytics(tasks, today) ==
    LET statusCounts == [s \in Statuses |-> Len(SelectSeq(tasks, LAMBDA x : x.status = s))]
        priorityCounts == [q \in Priorities |-> Len(SelectSeq(tasks, LAMBDA x : x.priority = q))]
        nameOf(x) == IF x.assignee # "" THEN x.assignee ELSE "Unassigned"
        assigneeCounts == [a \in {nameOf(tasks[i]) : i \in 1..Len(tasks)} |->
                              Len(SelectSeq(tasks, LAMBDA x : nameOf(x) = a))]
        overdue == Len(SelectSeq(tasks, LAMBDA x :
                        /\ Truthy(x.due_date) /\ ValueLess(x.due_date, today)
                        /\ x.status # "done"))
        total == Len(tasks)
        completed == statusCounts["done"]
    IN  [total |-> total,
         completed |-> completed,
         completionRate |-> IF total # 0 THEN RoundPercent(completed, total) ELSE 0,
         overdue |-> overdue,
         statusCounts |-> statusCounts,
         priorityCounts |-> priorityCounts,
         assigneeCounts |-> assigneeCounts,
         tasks |-> tasks]

getAnalytics(sprintId, today) == analytics(listTasks(analyticsFilters(sprintId)), today)

CodecOff ==
    /\ c_pc = "off"
    /\ c_meta = <<>>
    /\ c_desc = <<>>
    /\ c_body = <<>>
    /\ c_out = [meta |-> <<>>, description |-> <<>>]

(***************************************************************************)
(* The label helpers on their own: a label list is read as issueToTask     *)
(* reads it.                                                               *)
(***************************************************************************)
MaxLabels == 3

L_bug == <<"b", "u", "g">>

L_tp_custom == <<"t", "p", ":", "x">>

L_tp_bare == <<"t", "p">>

LabelAlphabet == StatusLabelNames \cup PriorityLabelNames \cup {L_bug, L_tp_custom, L_tp_bare}

LabelLists == UNION {[1..n -> LabelAlphabet] : n \in 0..MaxLabels}

InitLabels ==
    /\ l_pc = "in"
    /\ l_in \in LabelLists
    /\ l_out = [status |-> "", priority |-> "", labels |-> <<>>]

LabelsOff ==
    /\ l_pc = "off"
    /\ l_in = <<>>
    /\ l_out = [status |-> "", priority |-> "", labels |-> <<>>]

\* the status, priority and labels fields issueToTask computes
ReadLabels ==
    /\ l_pc = "in"
    /\ l_pc' = "done"
    /\ l_out' = [status |-> getStatusFromLabels(l_in),
                 priority |-> getPriorityFromLabels(l_in),
                 labels |-> getUserLabels(l_in)]
    /\ UNCHANGED <<transport, l_in, codecVars, storeVars>>

NextLabels == ReadLabels

InitSpecLabels == transport = "gh" /\ InitLabels /\ CodecOff /\ StoreOff

SpecLabels == InitSpecLabels /\ [][NextLabels]_vars

SystemLabelNames == {L_todo, L_in_progress, L_done, L_blocked, L_urgent, L_high, L_medium, L_low}

HasTpPrefix(n) == Len(n) >= 3 /\ n[1] = "t" /\ n[2] = "p" /\ n[3] = ":"

\* C9 as claimed: getUserLabels returns exactly the names that are not one of the
\* eight fixed names, in input order (a name that only shares the tp: prefix is kept).
C9_KeepsAllButFixedNames ==
    l_pc = "done" => l_out.labels = SelectSeq(l_in, LAMBDA n : n \notin SystemLabelNames)

\* C9 as amended: getUserLabels returns exactly the names that do not start with
\* "tp:", in input order; the eight fixed names and every other tp:-prefixed name
\* are dropped.
C9_KeepsAllButTpPrefixed ==
    l_pc = "done" =>
        /\ l_out.labels = SelectSeq(l_in, LAMBDA n : ~HasTpPrefix(n))
        /\ \A i \in 1..Len(l_out.labels) : l_out.labels[i] \notin SystemLabelNames

C9_Witness ==
    /\ l_pc = "done"
    /\ l_in = <<L_tp_custom, L_bug, L_tp_bare>>
    /\ l_out.labels = <<L_bug, L_tp_bare>>

ExpectedStatus(names) ==
    IF L_todo \in names THEN "todo"
    ELSE IF L_in_progress \in names THEN "in-progress"
    ELSE IF L_done \in names THEN "done"
    ELSE IF L_blocked \in names THEN "blocked"
    ELSE "todo"

ExpectedPriority(names) ==
    IF L_urgent \in names THEN "urgent"
    ELSE IF L_high \in names THEN "high"
    ELSE IF L_medium \in names THEN "medium"
    ELSE IF L_low \in names THEN "low"
    ELSE "medium"

\* C10: getStatusFromLabels returns the first status in the order todo, in-progress,
\* done, blocked whose label is present and todo if none is; getPriorityFromLabels
\* the first priority in the order urgent, high, medium, low whose label is present
\* and medium if none is; one status label and one priority label are recovered.
C10_LabelResolution ==
    l_pc = "done" =>
        LET names == {l_in[i] : i \in 1..Len(l_in)}
        IN  /\ l_out.status = ExpectedStatus(names)
            /\ l_out.priority = ExpectedPriority(names)
            /\ \A s \in Statuses :
                   names \cap StatusLabelNames = {STATUS_LABELS[s]} => l_out.status = s
            /\ \A p \in Priorities :
                   names \cap PriorityLabelNames = {PRIORITY_LABELS[p]} => l_out.priority = p

C10_Witness ==
    /\ l_pc = "done"
    /\ l_in = <<L_done, L_in_progress, L_low>>
    /\ l_out.status = "in-progress"
    /\ l_out.priority = "low"

(***************************************************************************)
(* The repository API called in sequence against one remote store.  Each   *)
(* action is one whole call; ops counts the calls made.                    *)
(***************************************************************************)
MaxIssues == 2

MaxOps == 3

D_0201 == <<"2", "0", "2", "6", "-", "0", "2", "-", "0", "1">>

D_0202 == <<"2", "0", "2", "6", "-", "0", "2", "-", "0", "2">>

D_0203 == <<"2", "0", "2", "6", "-", "0", "2", "-", "0", "3">>

\* an issue of the repository that TaskPlanner did not create
ForeignIssue(labels) ==
    [number |-> 1, title |-> "other", body |-> <<"x">>, labels |-> labels,
     state |-> "open", state_reason |-> "", assignees |-> <<>>, milestone |-> 0]

StoreSeeds == {<<>>, <<ForeignIssue(<<L_bug>>)>>, <<ForeignIssue(<<L_tp_custom, L_bug>>)>>}

CreateInputs ==
    {DefaultOptions,
     [DefaultOptions EXCEPT !.status = "done", !.priority = "high"],
     [DefaultOptions EXCEPT !.status = "blocked", !.sprint_id = 1, !.due_date = VStr(D_0201)]}

UpdateInputs ==
    {[status |-> s] : s \in {"todo", "in-progress", "done"}}
    \cup {[priority |-> "high"], [my_day |-> VBool(TRUE)]}

ListInputs ==
    {NoFilters, [NoFilters EXCEPT !.sprint_id = 1], [NoFilters EXCEPT !.sprint_id = 2]}
    \cup {[NoFilters EXCEPT !.status = s] : s \in Statuses}

InitStore ==
    /\ issues \in StoreSeeds
    /\ milestones = {1}
    /\ repoLabels = Provisioned
    /\ ops = 0
    /\ upd = NoUpd
    /\ ret = NoRet

Exists(id) == id \in 1..Len(issues)

\* createTask('task', options)
CreateWith(options) ==
    LET payload == createPayload("task", options)
        issue == NewIssue(Len(issues) + 1, payload)
    IN  /\ ~upd.busy
        /\ ops < MaxOps
        /\ Len(issues) < MaxIssues
        /\ ops' = ops + 1
        /\ IF RemoteRejectsMilestone(milestones, payload.milestone)
           THEN /\ ret' = [op |-> "create", err |-> TRUE]
                /\ UNCHANGED issues
           ELSE /\ issues' = Append(issues, issue)
                /\ ret' = [op |-> "create", err |-> FALSE, options |-> options,
                           task |-> issueToTask(issue)]
        /\ UNCHANGED <<transport, milestones, repoLabels, upd, codecVars, labelVars>>

CreateTask == \E options \in CreateInputs : CreateWith(options)

GetTask ==
    \E id \in 1..MaxIssues :
        /\ ~upd.busy
        /\ ops < MaxOps
        /\ ops' = ops + 1
        /\ ret' = IF Exists(id)
                  THEN [op |-> "get", id |-> id, err |-> FALSE, task |-> issueToTask(issues[id])]
                  ELSE [op |-> "get", id |-> id, err |-> TRUE]
        /\ UNCHANGED <<transport, issues, milestones, repoLabels, upd, codecVars, labelVars>>

\* a PATCH that is computed from the stored issue at the time of the write
Patched_fresh(current, stored, updates) == ApplyPatch(stored, updatePayload(stored, updates))

\* the issue after updateTask's PATCH, computed from the issue that was read
Patched(current, stored, updates) == ApplyPatch(stored, updatePayload(current, updates))

\* whether the call fails: the body cannot be built, or the PATCH is rejected
updateFails(current, updates) ==
    \/ updateThrows(current, updates)
    \/ RemoteRejectsMilestone(milestones, updatePayload(current, updates).milestone)

\* updateTask(id, updates) with no other writer between its read and its write
UpdateWith(id, updates) ==
    /\ ~upd.busy
    /\ ops < MaxOps
    /\ ops' = ops + 1
    /\ IF ~Exists(id) \/ updateFails(issues[id], updates)
       THEN /\ ret' = [op |-> "update", id |-> id, updates |-> updates, err |-> TRUE]
            /\ UNCHANGED issues
       ELSE /\ issues' = [issues EXCEPT ![id] = Patched(issues[id], issues[id], updates)]
            /\ ret' = [op |-> "update", id |-> id, updates |-> updates, err |-> FALSE,
                       before |-> issues[id],
                       task |-> issueToTask(Patched(issues[id], issues[id], updates))]
    /\ UNCHANGED <<transport, milestones, repoLabels, upd, codecVars, labelVars>>

UpdateTask == \E id \in 1..MaxIssues, updates \in UpdateInputs : UpdateWith(id, updates)

DeleteTask ==
    \E id \in 1..MaxIssues :
        /\ ~upd.busy
        /\ ops < MaxOps
        /\ ops' = ops + 1
        /\ IF ~Exists(id)
           THEN /\ ret' = [op |-> "delete", id |-> id, err |-> TRUE]
                /\ UNCHANGED issues
           ELSE /\ issues' = [issues EXCEPT ![id] = ApplyClose(issues[id])]
                /\ ret' = [op |-> "delete", id |-> id, err |-> FALSE, before |-> issues[id]]
        /\ UNCHANGED <<transport, milestones, repoLabels, upd, codecVars, labelVars>>

\* listTasks(filters)
ListWith(filters) ==
    /\ ~upd.busy
    /\ ops < MaxOps
    /\ ops' = ops + 1
    /\ ret' = [op |-> "list", filters |-> filters, err |-> FALSE, tasks |-> listTasks(filters)]
    /\ UNCHANGED <<transport, issues, milestones, repoLabels, upd, codecVars, labelVars>>

ListTasks == \E filters \in ListInputs : ListWith(filters)

Next == CreateTask \/ GetTask \/ UpdateTask \/ DeleteTask \/ ListTasks

Init == transport \in Transports /\ InitStore /\ CodecOff /\ LabelsOff

Spec == Init /\ [][Next]_vars

\* the remote issue a listed task was mapped from
ListedIssue(i) == issues[ret.tasks[i].id]

\* C3: updateTask with a status other than done opens a closed issue only if the
\* issue was closed as completed; an issue closed as not planned stays closed.
C3_ReopenOnlyIfCompleted ==
    (/\ ret.op = "update"
     /\ ~ret.err
     /\ Has(ret.updates, "status")
     /\ ret.updates.status # "done"
     /\ ret.before.state = "closed"
     /\ issues[ret.id].state = "open")
    => ret.before.state_reason = "completed"

\* C5: every task listTasks({status: s}) returns has status s.
C5_StatusFilterSound ==
    (ret.op = "list" /\ ret.filters.status # "")
    => \A i \in 1..Len(ret.tasks) : ret.tasks[i].status = ret.filters.status

\* C6: every task listTasks({sprint_id: s}) returns has sprint_id s, also when s
\* names no sprint.
C6_SprintFilterSound ==
    (ret.op = "list" /\ ret.filters.sprint_id # 0)
    => \A i \in 1..Len(ret.tasks) : ret.tasks[i].sprint_id = ret.filters.sprint_id

\* C7: listTasks with no status filter and without include_done returns no task
\* whose status is done.
C7_DefaultListingExcludesDone ==
    (ret.op = "list" /\ ret.filters.status = "" /\ ~ret.filters.include_done)
    => \A i \in 1..Len(ret.tasks) : ret.tasks[i].status # "done"

\* C8 as stated: an issue is listed only if one of its labels is one of the 8
\* fixed system label names.
C8_ListedOnlyWithFixedName ==
    ret.op = "list"
    => \A i \in 1..Len(ret.tasks) :
           \E k \in 1..Len(ListedIssue(i).labels) : ListedIssue(i).labels[k] \in SystemLabelNames

\* C8 amended: an issue is listed only if one of its labels starts with 'tp:';
\* an issue with no such label is never listed.
C8_ListedOnlyWithTpPrefix ==
    ret.op = "list"
    => \A i \in 1..Len(ret.tasks) :
           \E k \in 1..Len(ListedIssue(i).labels) : HasTpPrefix(ListedIssue(i).labels[k])

\* a listing holds an issue that carries 'tp:x' and none of the 8 fixed names,
\* while the store also holds an issue
C8_Witness ==
    /\ ret.op = "list"
    /\ \E i \in 1..Len(ret.tasks) :
           /\ Includes(ListedIssue(i).labels, L_tp_custom)
           /\ \A k \in 1..Len(ListedIssue(i).labels) :
                  ListedIssue(i).labels[k] \notin SystemLabelNames

InList(list, id) == \E i \in 1..Len(list) : list[i].id = id

\* deleteTask has just closed an issue
Deleted == ret.op = "delete" /\ ~ret.err

\* C14: deleteTask closes the issue as not planned and changes neither its labels
\* nor its body; getTask then returns the task with the status and priority it
\* had, and listTasks with default filters does not return it.
C14_SoftDelete ==
    Deleted
    => /\ issues[ret.id].state = "closed"
       /\ issues[ret.id].state_reason = "not_planned"
       /\ issues[ret.id].labels = ret.before.labels
       /\ issues[ret.id].body = ret.before.body
       /\ issueToTask(issues[ret.id]).status = issueToTask(ret.before).status
       /\ issueToTask(issues[ret.id]).priority = issueToTask(ret.before).priority
       /\ ~InList(listTasks(NoFilters), ret.id)

\* C26: after deleteTask(id) the task is in no column of getBoardData, is not
\* among the tasks getAnalytics counts, and is not returned by
\* listTasks({status: 'done'}).
C26_DeletedOutOfViews ==
    Deleted
    => /\ \A s \in Statuses : ~InList(getBoardData(NoFilters)[s], ret.id)
       /\ ~InList(getAnalytics(0, D_0202).tasks, ret.id)
       /\ ~InList(listTasks([NoFilters EXCEPT !.status = "done"]), ret.id)

\* an open high-priority task that the default listing returned has been deleted
C14_Witness ==
    /\ Deleted
    /\ ret.before.state = "open"
    /\ IsTaskPlannerIssue(ret.before)
    /\ issueToTask(issues[ret.id]).priority = "high"
    /\ issues[ret.id].state = "closed"

(***************************************************************************)
(* The same calls against a remote that may reject a request: down names   *)
(* the request of the call that the remote rejects, if any.  requests      *)
(* lists the requests the call sent, in order; was is the store before the *)
(* call.                                                                   *)
(***************************************************************************)
\* a remote that applies a write although it answered with an error
Settle_applied(before, after, rejected) == after

\* the store after a write request: a rejected request changes nothing
Settle(before, after, rejected) == IF rejected THEN before ELSE after

FailingCreate ==
    \E options \in {DefaultOptions, [DefaultOptions EXCEPT !.sprint_id = 2]},
       down \in {"none", "write"} :
        LET payload == createPayload("task", options)
            issue == NewIssue(Len(issues) + 1, payload)
            rejected == down = "write" \/ RemoteRejectsMilestone(milestones, payload.milestone)
        IN  /\ ops < MaxOps
            /\ Len(issues) < MaxIssues
            /\ ops' = ops + 1
            /\ issues' = Settle(issues, Append(issues, issue), rejected)
            /\ ret' = IF rejected
                      THEN [op |-> "create", err |-> TRUE, rejected |-> TRUE,
                            requests |-> <<"POST">>, was |-> issues]
                      ELSE [op |-> "create", err |-> FALSE, rejected |-> FALSE,
                            requests |-> <<"POST">>, was |-> issues,
                            task |-> issueToTask(issue)]
            /\ UNCHANGED <<transport, milestones, repoLabels, upd, codecVars, labelVars>>

FailingGet ==
    \E id \in 1..MaxIssues, down \in {"none", "read"} :
        LET rejected == down = "read" \/ ~Exists(id)
        IN  /\ ops < MaxOps
            /\ ops' = ops + 1
            /\ ret' = IF rejected
                      THEN [op |-> "get", id |-> id, err |-> TRUE, rejected |-> TRUE,
                            requests |-> <<"GET">>, was |-> issues]
                      ELSE [op |-> "get", id |-> id, err |-> FALSE, rejected |-> FALSE,
                            requests |-> <<"GET">>, was |-> issues,
                            task |-> issueToTask(issues[id])]
            /\ UNCHANGED <<transport, issues, milestones, repoLabels, upd, codecVars, labelVars>>

FailingUpdate ==
    \E id \in 1..MaxIssues, down \in {"none", "read", "write"},
       updates \in {[status |-> "done"], [priority |-> "high"], [sprint_id |-> 2]} :
        LET noRead == down = "read" \/ ~Exists(id)
            threw == ~noRead /\ updateThrows(issues[id], updates)
            noWrite == /\ ~noRead
                       /\ ~threw
                       /\ \/ down = "write"
                          \/ RemoteRejectsMilestone(milestones,
                                 updatePayload(issues[id], updates).milestone)
        IN  /\ ops < MaxOps
            /\ ops' = ops + 1
            /\ issues' = IF noRead \/ threw THEN issues
                         ELSE Settle(issues,
                                     [issues EXCEPT ![id] = Patched(issues[id], issues[id], updates)],
                                     noWrite)
            /\ ret' = IF noRead \/ threw \/ noWrite
                      THEN [op |-> "update", id |-> id, err |-> TRUE,
                            rejected |-> noRead \/ noWrite,
                            requests |-> IF noRead \/ threw THEN <<"GET">> ELSE <<"GET", "PATCH">>,
                            was |-> issues]
                      ELSE [op |-> "update", id |-> id, err |-> FALSE, rejected |-> FALSE,
                            requests |-> <<"GET", "PATCH">>, was |-> issues,
                            task |-> issueToTask(Patched(issues[id], issues[id], updates))]
            /\ UNCHANGED <<transport, milestones, repoLabels, upd, codecVars, labelVars>>

FailingDelete ==
    \E id \in 1..MaxIssues, down \in {"none", "write"} :
        LET rejected == down = "write" \/ ~Exists(id)
        IN  /\ ops < MaxOps
            /\ ops' = ops + 1
            /\ issues' = IF ~Exists(id) THEN issues
                         ELSE Settle(issues, [issues EXCEPT ![id] = ApplyClose(issues[id])],
                                     rejected)
            /\ ret' = [op |-> "delete", id |-> id, err |-> rejected, rejected |-> rejected,
                       requests |-> <<"PATCH">>, was |-> issues]
            /\ UNCHANGED <<transport, milestones, repoLabels, upd, codecVars, labelVars>>

NextFail == FailingCreate \/ FailingGet \/ FailingUpdate \/ FailingDelete

SpecFail == Init /\ [][NextFail]_vars

C25_ClosedMatchesDone ==
    \A n \in 1..Len(issues) :
        /\ Includes(issues[n].labels, L_done) => issues[n].state = "closed"
        /\ issues[n].state = "open" => issueToTask(issues[n]).status # "done"

(***************************************************************************)
(* The board read between writes to the store.                             *)
(***************************************************************************)
BoardInputs ==
    {NoFilters, [NoFilters EXCEPT !.status = "todo"], [NoFilters EXCEPT !.status = "done"]}

GetBoardData ==
    \E filters \in BoardInputs :
        /\ ~upd.busy
        /\ ops < MaxOps
        /\ ops' = ops + 1
        /\ ret' = [op |-> "board", filters |-> filters, err |-> FALSE,
                   columns |-> getBoardData(filters)]
        /\ UNCHANGED <<transport, issues, milestones, repoLabels, upd, codecVars, labelVars>>

NextBoard == CreateTask \/ UpdateTask \/ DeleteTask \/ GetBoardData

SpecBoard == Init /\ [][NextBoard]_vars

\* updateTask(id, {status: 'done'}) has just returned
Completed == ret.op = "update" /\ ~ret.err /\ Has(ret.updates, "status") /\ ret.updates.status = "done"

\* C13: after updateTask(id, {status: 'done'}) the issue is closed as completed,
\* no listTasks call with status filter todo, in-progress or blocked returns the
\* task, and getBoardData has it in the done column.
C13_Completing ==
    Completed
    => /\ issues[ret.id].state = "closed"
       /\ issues[ret.id].state_reason = "completed"
       /\ \A s \in {"todo", "in-progress", "blocked"} :
              ~InList(listTasks([NoFilters EXCEPT !.status = s]), ret.id)
       /\ InList(getBoardData(NoFilters)["done"], ret.id)

\* a task createTask made open, that was not done, has been completed
C13_Witness ==
    /\ Completed
    /\ ret.before.state = "open"
    /\ ret.before.title = "task"
    /\ issueToTask(ret.before).status # "done"
    /\ issues[ret.id].state = "closed"

\* the ids of the tasks of a list, in its order
IdsOf(list) == [i \in 1..Len(list) |-> list[i].id]

\* how many times the task numbered id stands in the list
Count(list, id) == Cardinality({i \in 1..Len(list) : list[i].id = id})

\* the board holds exactly the tasks of the list, each once, under its status
Partitions(columns, list) ==
    /\ DOMAIN columns = {"todo", "in-progress", "blocked", "done"}
    /\ \A i \in 1..Len(list) :
           \A s \in DOMAIN columns :
               /\ Count(columns[s], list[i].id) = (IF s = list[i].status THEN 1 ELSE 0)
               /\ s = list[i].status => InList(columns[s], list[i].id)
    /\ \A s \in DOMAIN columns :
           \A j \in 1..Len(columns[s]) :
               \E i \in 1..Len(list) : list[i] = columns[s][j]

\* C16: getBoardData returns exactly the columns todo, in-progress, blocked and
\* done, and every task of the list fetched with the caller's filters and the
\* completed tasks included stands in exactly one column, the one named by its
\* status; the columns hold nothing else.
C16_BoardPartition ==
    ret.op = "board"
    => /\ ~ret.err
       /\ Partitions(ret.columns, listTasks([ret.filters EXCEPT !.include_done = TRUE]))

\* a board read without filters that shows an open task and a completed one
C16_Witness ==
    /\ ret.op = "board"
    /\ ~ret.filters.include_done
    /\ Len(ret.columns["todo"]) = 1
    /\ Len(ret.columns["done"]) = 1
    /\ Len(ret.columns["blocked"]) = 0
    /\ ret.columns["todo"][1].id # ret.columns["done"][1].id

(***************************************************************************)
(* getMyDayTasks over stores of tasks createTask made.                      *)
(***************************************************************************)
MaxViewIssues == 2

ViewOptions ==
    {[DefaultOptions EXCEPT !.status = s, !.due_date = d, !.my_day = VBool(m)] :
        s \in {"todo", "in-progress", "done"},
        d \in {VNull, VStr(D_0201), VStr(D_0203)},
        m \in BOOLEAN}

RECURSIVE StoresOfLen(_)
\* the stores n createTask calls build from the options
StoresOfLen(n) ==
    IF n = 0 THEN {<<>>}
    ELSE {Append(s, NewIssue(n, createPayload("task", o))) :
            s \in StoresOfLen(n - 1), o \in ViewOptions}

ViewStores == UNION {StoresOfLen(n) : n \in 0..MaxViewIssues}

Todays == {D_0201, D_0202, D_0203}

InitViews ==
    /\ issues \in ViewStores
    /\ milestones = {1}
    /\ repoLabels = Provisioned
    /\ ops = 0
    /\ upd = NoUpd
    /\ ret = NoRet

GetMyDayTasks ==
    \E today \in Todays :
        /\ ret' = [op |-> "myday", today |-> today, err |-> FALSE, view |-> getMyDayTasks(today)]
        /\ UNCHANGED <<transport, issues, milestones, repoLabels, ops, upd, codecVars, labelVars>>

NextViews == GetMyDayTasks

InitSpecViews == transport \in Transports /\ InitViews /\ CodecOff /\ LabelsOff

SpecViews == InitSpecViews /\ [][NextViews]_vars

InBucket(list, id) == \E i \in 1..Len(list) : list[i].id = id

\* the buckets of a getMyDayTasks result that hold the task id
BucketsOf(view, id) ==
    {b \in {"my_day", "overdue", "due_today", "in_progress"} : InBucket(view[b], id)}

\* C2: every task that is not done is in at most one of the four lists
\* getMyDayTasks returns.
C2_BucketsDisjoint ==
    ret.op = "myday"
    => \A n \in 1..Len(issues) :
           issueToTask(issues[n]).status # "done"
           => Cardinality(BucketsOf(ret.view, n)) <= 1

\* the store holds two tasks that are not done and not flagged my_day, the first
\* due 2026-02-01 and the second due 2026-02-03, and the view was made on
\* 2026-02-02
TwoDueTasks ==
    /\ ret.op = "myday"
    /\ ret.today = D_0202
    /\ Len(issues) = 2
    /\ issueToTask(issues[1]).due_date = VStr(D_0201)
    /\ issueToTask(issues[2]).due_date = VStr(D_0203)
    /\ \A n \in 1..2 : LET t == issueToTask(issues[n])
                       IN  t.status # "done" /\ ~Truthy(t.my_day)

\* C21 as stated: the first task is in overdue, the second in due_today, and
\* my_day is empty.
C21_SecondDueToday ==
    TwoDueTasks
    => /\ IdsOf(ret.view.overdue) = <<1>>
       /\ IdsOf(ret.view.due_today) = <<2>>
       /\ ret.view.my_day = <<>>

\* C21: with two tasks due 2026-02-01 and 2026-02-03, neither flagged my_day, and
\* today = 2026-02-02, getMyDayTasks puts the first task in overdue, the second
\* task in neither overdue nor due_today, and the my_day and due_today lists are
\* empty; total_focus is 1.
C21_MyDayScenario ==
    TwoDueTasks
    => /\ IdsOf(ret.view.overdue) = <<1>>
       /\ ret.view.due_today = <<>>
       /\ ret.view.my_day = <<>>
       /\ ~InBucket(ret.view.overdue, 2)
       /\ ret.view.total_focus = 1

\* the scenario with two todo tasks
C21_Witness ==
    /\ TwoDueTasks
    /\ issueToTask(issues[1]).status = "todo"
    /\ issueToTask(issues[2]).status = "todo"
    /\ IdsOf(ret.view.overdue) = <<1>>

(***************************************************************************)
(* planMyDay (the planner, ghcli.js 139-341) over the same stores: with an  *)
(* assistant key the plan is the assistant's answer mapped back to the      *)
(* listed tasks, without one it is simpleDayPlan.  The assistant's answer   *)
(* is any list of ids, or text that is not JSON.                            *)
(***************************************************************************)
\* .slice(0, 7)
PlanLimit == 7

\* the tasks whose summary lines are sent to the assistant
sentTasks(tasks) == SelectSeq(tasks, LAMBDA x : x.status # "done")

\* taskMap.get(id): the listed task with that id
TaskOf(tasks, id) == tasks[CHOOSE i \in 1..Len(tasks) : tasks[i].id = id]

\* plan.plan.map(p => ({...p, task: taskMap.get(p.id) || null})).filter(p => p.task)
mapPlan(tasks, ids) ==
    LET kept == SelectSeq(ids, LAMBDA n : \E i \in 1..Len(tasks) : tasks[i].id = n)
    IN  [j \in 1..Len(kept) |-> [id |-> kept[j], task |-> TaskOf(tasks, kept[j])]]

PlanEntries(list, reason) ==
    [i \in 1..Len(list) |-> [id |-> list[i].id, task |-> list[i], reason |-> reason]]

simpleDayPlan(view) ==
    LET all == PlanEntries(view.overdue, "overdue") \o PlanEntries(view.due_today, "due today")
               \o PlanEntries(view.in_progress, "in progress")
               \o PlanEntries(view.my_day, "my day")
    IN  SubSeq(all, 1, IF Len(all) < PlanLimit THEN Len(all) ELSE PlanLimit)

\* what the assistant can answer: a plan naming tasks by id, or no JSON at all
Answers ==
    {[json |-> TRUE, ids |-> s] : s \in {<<>>} \cup {<<a>> : a \in 1..3} \cup {<<a, b>> : a, b \in 1..3}}
    \cup {[json |-> FALSE, ids |-> <<>>]}

PlanOptions ==
    {DefaultOptions,
     [DefaultOptions EXCEPT !.status = "done"],
     [DefaultOptions EXCEPT !.status = "in-progress", !.due_date = VStr(D_0201)],
     [DefaultOptions EXCEPT !.due_date = VStr(D_0203), !.my_day = VBool(TRUE)]}

RECURSIVE PlanStoresOfLen(_)
\* the stores n createTask calls build from the options
PlanStoresOfLen(n) ==
    IF n = 0 THEN {<<>>}
    ELSE {Append(s, NewIssue(n, createPayload("task", o))) :
            s \in PlanStoresOfLen(n - 1), o \in PlanOptions}

InitPlan ==
    /\ issues \in UNION {PlanStoresOfLen(n) : n \in 0..MaxViewIssues}
    /\ milestones = {1}
    /\ repoLabels = Provisioned
    /\ ops = 0
    /\ upd = NoUpd
    /\ ret = NoRet

\* planMyDay() with no assistant key configured
PlanSimply ==
    \E today \in Todays :
        /\ ops < MaxOps
        /\ ops' = ops + 1
        /\ ret' = [op |-> "plan", ai |-> FALSE, err |-> FALSE,
                   plan |-> simpleDayPlan(getMyDayTasks(today))]
        /\ UNCHANGED <<transport, issues, milestones, repoLabels, upd, codecVars, labelVars>>

\* planMyDay() with an assistant key configured
PlanWithAssistant ==
    \E answer \in Answers :
        /\ ops < MaxOps
        /\ ops' = ops + 1
        /\ ret' = IF ~answer.json
                  THEN [op |-> "plan", ai |-> TRUE, err |-> TRUE]
                  ELSE [op |-> "plan", ai |-> TRUE, err |-> FALSE,
                        sent |-> sentTasks(listTasks(NoFilters)),
                        answer |-> answer.ids,
                        plan |-> mapPlan(listTasks(NoFilters), answer.ids)]
        /\ UNCHANGED <<transport, issues, milestones, repoLabels, upd, codecVars, labelVars>>

NextPlan == PlanSimply \/ PlanWithAssistant

InitSpecPlan == transport \in Transports /\ InitPlan /\ CodecOff /\ LabelsOff

SpecPlan == InitSpecPlan /\ [][NextPlan]_vars

ReasonRank(r) ==
    CASE r = "overdue" -> 1 [] r = "due today" -> 2 [] r = "in progress" -> 3 [] r = "my day" -> 4

\* C22: every entry of the plan planMyDay returns with an assistant names a task
\* of the list of incomplete tasks that was sent; an answer naming other ids
\* raises no error.
C22_PlanWithinSent ==
    (ret.op = "plan" /\ ret.ai /\ ~ret.err)
    => \A i \in 1..Len(ret.plan) : InBucket(ret.sent, ret.plan[i].id)

\* C30: without an assistant key the plan has at most 7 entries, taken in the
\* order overdue, due today, in progress, my_day, no task id occurs twice in it
\* and no task in it is done.
C30_FallbackPlan ==
    (ret.op = "plan" /\ ~ret.ai)
    => /\ ~ret.err
       /\ Len(ret.plan) <= PlanLimit
       /\ \A i, j \in 1..Len(ret.plan) :
              /\ ret.plan[i].task.status # "done"
              /\ i < j => ret.plan[i].id # ret.plan[j].id
              /\ i < j => ReasonRank(ret.plan[i].reason) <= ReasonRank(ret.plan[j].reason)

(***************************************************************************)
(* updateTask in its two remote steps, the read and the write, with        *)
(* another writer's whole updateTask on the same issue between them.       *)
(***************************************************************************)
RaceSeeds ==
    {<<NewIssue(1, createPayload("task", o))>> :
        o \in {DefaultOptions, [DefaultOptions EXCEPT !.status = "in-progress"]}}

InitRace ==
    /\ issues \in RaceSeeds
    /\ milestones = {1}
    /\ repoLabels = Provisioned
    /\ ops = 0
    /\ upd = NoUpd
    /\ ret = NoRet

\* step 1: the issue is read
UpdateRead ==
    \E id \in 1..MaxIssues, updates \in UpdateInputs :
        /\ ~upd.busy
        /\ ops < MaxOps
        /\ IF Exists(id)
           THEN /\ upd' = [busy |-> TRUE, raced |-> FALSE, id |-> id, updates |-> updates,
                           current |-> issues[id], theirs |-> issues[id]]
                /\ UNCHANGED <<ret, ops>>
           ELSE /\ ret' = [op |-> "update", id |-> id, updates |-> updates, err |-> TRUE]
                /\ ops' = ops + 1
                /\ UNCHANGED upd
        /\ UNCHANGED <<transport, issues, milestones, repoLabels, codecVars, labelVars>>

\* another instance updates the issue that was read and is told of no error
SecondWriter ==
    \E updates \in UpdateInputs :
        /\ upd.busy
        /\ ops + 1 < MaxOps
        /\ ~updateFails(issues[upd.id], updates)
        /\ issues' = [issues EXCEPT ![upd.id] = Patched(issues[upd.id], issues[upd.id], updates)]
        /\ upd' = [upd EXCEPT !.raced = TRUE, !.theirs = issues'[upd.id]]
        /\ ops' = ops + 1
        /\ UNCHANGED <<transport, milestones, repoLabels, ret, codecVars, labelVars>>

\* steps 2 to 5: the PATCH is computed from the issue read in step 1 and sent
UpdateWrite ==
    /\ upd.busy
    /\ ops' = ops + 1
    /\ upd' = [upd EXCEPT !.busy = FALSE]
    /\ IF updateFails(upd.current, upd.updates)
       THEN /\ ret' = [op |-> "update", id |-> upd.id, updates |-> upd.updates, err |-> TRUE]
            /\ UNCHANGED issues
       ELSE /\ issues' = [issues EXCEPT
                             ![upd.id] = Patched(upd.current, issues[upd.id], upd.updates)]
            /\ ret' = [op |-> "update", id |-> upd.id, updates |-> upd.updates, err |-> FALSE,
                       before |-> upd.current,
                       task |-> issueToTask(Patched(upd.current, issues[upd.id], upd.updates))]
    /\ UNCHANGED <<transport, milestones, repoLabels, codecVars, labelVars>>

NextRace == UpdateRead \/ SecondWriter \/ UpdateWrite

InitSpecRace == transport \in Transports /\ InitRace /\ CodecOff /\ LabelsOff

SpecRace == InitSpecRace /\ [][NextRace]_vars

\* updateTask has just written and another writer wrote after its read
RacedWrite == ~upd.busy /\ upd.raced /\ ret.op = "update" /\ ret.id = upd.id

\* C4: when another writer changed the issue between updateTask's read and its
\* write, the issue afterwards holds the labels and body computed from the stale
\* read, and updateTask reports no error.
C4_LastWriterWins ==
    RacedWrite
    => /\ ~ret.err
       /\ issues[upd.id].labels = updateLabels(upd.current.labels, upd.updates)
       /\ issues[upd.id].body = updatePayload(upd.current, upd.updates).body

\* the other writer set the priority to high, in the labels and in the body;
\* after updateTask's write both are as they were read
C4_Witness ==
    /\ RacedWrite
    /\ Includes(upd.theirs.labels, L_high)
    /\ upd.theirs.body # upd.current.body
    /\ ~Includes(issues[upd.id].labels, L_high)
    /\ ~Has(upd.updates, "priority")
    /\ Get(parseYamlFrontMatter(issues[upd.id].body).meta, S_priority)
           = Get(parseYamlFrontMatter(upd.current.body).meta, S_priority)

(***************************************************************************)
(* updateTask over single-issue stores: tasks createTask made with varied  *)
(* options, and issues whose labels were edited outside TaskPlanner.       *)
(***************************************************************************)
T_hi == <<"h", "i">>

T_a == <<"a">>

T_bc == <<"b", "c">>

\* a task with every option given
FullOptions ==
    [priority |-> "low", status |-> "in-progress", due_date |-> VStr(D_0201),
     assignee |-> "al", sprint_id |-> 1, description |-> T_hi, my_day |-> VBool(TRUE),
     estimated_hours |-> VInt(2), tags |-> VList(<<T_a, T_bc>>), parent_task |-> VInt(1)]

UpdateStores ==
    {<<NewIssue(1, createPayload("task", o))>> : o \in {DefaultOptions, FullOptions}}
    \cup {<<ForeignIssue(ls)>> :
            ls \in {<<L_bug>>,
                    <<L_todo, L_blocked, L_low, L_bug>>,
                    <<L_high, L_done, L_low, L_tp_custom>>}}

\* updates that name one field each
FieldInputs ==
    {[status |-> s] : s \in Statuses}
    \cup {[priority |-> p] : p \in {"urgent", "low"}}
    \cup {[due_date |-> VStr(D_0202)], [my_day |-> VBool(TRUE)], [tags |-> VList(<<T_a>>)],
          [title |-> "new"], [description |-> T_a], [sprint_id |-> 1]}

\* one call made the store, so MaxOps - 1 calls are left
InitUpdate ==
    /\ issues \in UpdateStores
    /\ milestones = {1}
    /\ repoLabels = Provisioned
    /\ ops = 1
    /\ upd = NoUpd
    /\ ret = NoRet

UpdateFields == \E id \in 1..MaxIssues, updates \in FieldInputs : UpdateWith(id, updates)

NextUpdate == UpdateFields

InitSpecUpdate == transport \in Transports /\ InitUpdate /\ CodecOff /\ LabelsOff

SpecUpdate == InitSpecUpdate /\ [][NextUpdate]_vars

\* updateTask has just returned a task
Updated == ret.op = "update" /\ ~ret.err

StatusLabelsOf(labels) == SelectSeq(labels, LAMBDA l : l \in StatusLabelNames)

PriorityLabelsOf(labels) == SelectSeq(labels, LAMBDA l : l \in PriorityLabelNames)

Members(list) == {list[i] : i \in 1..Len(list)}

\* C11: after updateTask(id, {status: s}) the issue carries exactly one status
\* label, the one for s, and its other labels are the same set as before; after
\* updateTask(id, {priority: p}) it carries exactly one priority label, the one
\* for p, and its other labels are the same set as before.
C11_LabelReplacement ==
    /\ (Updated /\ Has(ret.updates, "status"))
       => /\ StatusLabelsOf(issues[ret.id].labels) = <<STATUS_LABELS[ret.updates.status]>>
          /\ Members(issues[ret.id].labels) \ StatusLabelNames
                 = Members(ret.before.labels) \ StatusLabelNames
    /\ (Updated /\ Has(ret.updates, "priority"))
       => /\ PriorityLabelsOf(issues[ret.id].labels) = <<PRIORITY_LABELS[ret.updates.priority]>>
          /\ Members(issues[ret.id].labels) \ PriorityLabelNames
                 = Members(ret.before.labels) \ PriorityLabelNames

\* an issue that carried two status labels, a priority label and a user label
\* has had its status set
C11_Witness ==
    /\ Updated
    /\ Has(ret.updates, "status")
    /\ Len(StatusLabelsOf(ret.before.labels)) = 2
    /\ Len(StatusLabelsOf(issues[ret.id].labels)) = 1
    /\ Includes(issues[ret.id].labels, L_low)
    /\ Includes(issues[ret.id].labels, L_bug)

\* the canonical Task fields an update can name, and the name it uses
TaskFields ==
    {"title", "body", "status", "priority", "due_date", "my_day", "estimated_hours",
     "actual_hours", "tags", "parent_task", "assignee", "sprint_id"}

UpdateKey(f) == IF f = "body" THEN "description" ELSE f

\* C12: updateTask leaves every Task field that updates does not name equal to
\* what getTask returned before the call, in the task it returns and in the
\* task getTask returns afterwards.
C12_UpdateFrame ==
    Updated
    => \A f \in TaskFields :
           ~Has(ret.updates, UpdateKey(f))
           => /\ ret.task[f] = issueToTask(ret.before)[f]
              /\ issueToTask(issues[ret.id])[f] = ret.task[f]

(***************************************************************************)
(* listTasks over stores of open tasks that differ in priority and due     *)
(* date.                                                                   *)
(***************************************************************************)
MaxSortIssues == 4

D_0101 == <<"2", "0", "2", "6", "-", "0", "1", "-", "0", "1">>

D_0105 == <<"2", "0", "2", "6", "-", "0", "1", "-", "0", "5">>

SortOption(p, d) == [DefaultOptions EXCEPT !.priority = p, !.due_date = d]

SortOptions ==
    {SortOption("urgent", VNull), SortOption("low", VStr(D_0101)),
     SortOption("high", VStr(D_0105)), SortOption("high", VNull),
     SortOption("high", VStr(D_0101))}

RECURSIVE SortStoresOfLen(_)
\* the stores n createTask calls build from the options
SortStoresOfLen(n) ==
    IF n = 0 THEN {<<>>}
    ELSE {Append(s, NewIssue(n, createPayload("task", o))) :
            s \in SortStoresOfLen(n - 1), o \in SortOptions}

InitSort ==
    /\ issues \in UNION {SortStoresOfLen(n) : n \in 0..MaxSortIssues}
    /\ milestones = {1}
    /\ repoLabels = Provisioned
    /\ ops = 0
    /\ upd = NoUpd
    /\ ret = NoRet

ListAll == ListWith(NoFilters)

NextSort == ListAll

InitSpecSort == transport \in Transports /\ InitSort /\ CodecOff /\ LabelsOff

SpecSort == InitSpecSort /\ [][NextSort]_vars

\* the list as fetched: the issues newest first, as tasks
Fetched == [i \in 1..Len(issues) |-> issueToTask(issues[Len(issues) + 1 - i])]

\* where the issue numbered id stands in the fetched list
FetchedPlace(id) == Len(issues) + 1 - id

\* a goes before b by priority rank, then by due date with no date last
KeyBefore(a, b) ==
    \/ PRIORITY_ORDER[a.priority] < PRIORITY_ORDER[b.priority]
    \/ /\ a.priority = b.priority
       /\ \/ a.due_date # VNull /\ b.due_date = VNull
          \/ a.due_date # VNull /\ b.due_date # VNull /\ StrLess(a.due_date.s, b.due_date.s)

\* C15: the list listTasks returns holds the fetched tasks, ordered by priority
\* rank, then by due date with undated tasks after the dated ones, and tasks
\* equal on both keys stand in their fetched order.
C15_CanonicalSort ==
    ret.op = "list"
    => /\ Len(ret.tasks) = Len(issues)
       /\ \A n \in 1..Len(issues) :
              \E j \in 1..Len(ret.tasks) : ret.tasks[j].id = n /\ ret.tasks[j] = issueToTask(issues[n])
       /\ \A i, j \in 1..Len(ret.tasks) :
              i < j
              => /\ ~KeyBefore(ret.tasks[j], ret.tasks[i])
                 /\ ~KeyBefore(ret.tasks[i], ret.tasks[j])
                    => FetchedPlace(ret.tasks[i].id) < FetchedPlace(ret.tasks[j].id)

\* fetched as urgent/no date, low/2026-01-01, high/2026-01-05, high/no date, the
\* tasks are returned as urgent, high/2026-01-05, high/no date, low/2026-01-01
C15_Witness ==
    /\ ret.op = "list"
    /\ Len(Fetched) = 4
    /\ [i \in 1..4 |-> <<Fetched[i].priority, Fetched[i].due_date>>]
           = <<<<"urgent", VNull>>, <<"low", VStr(D_0101)>>,
               <<"high", VStr(D_0105)>>, <<"high", VNull>>>>
    /\ [i \in 1..4 |-> ret.tasks[i].id] = <<4, 2, 1, 3>>

(***************************************************************************)
(* getAnalytics over stores of tasks createTask made, open and completed,   *)
(* with and without a due date and a sprint, read on two days.             *)
(***************************************************************************)
MaxStatIssues == 3

StatOption(s, d, m) == [DefaultOptions EXCEPT !.status = s, !.due_date = d, !.sprint_id = m]

StatOptions ==
    {StatOption("todo", VNull, 0), StatOption("done", VNull, 1),
     StatOption("todo", VStr(D_0201), 1), StatOption("done", VStr(D_0105), 0)}

StatDays == {D_0201, D_0202}

RECURSIVE StatStoresOfLen(_)
\* the stores n createTask calls build from the options
StatStoresOfLen(n) ==
    IF n = 0 THEN {<<>>}
    ELSE {Append(s, NewIssue(n, createPayload("task", o))) :
            s \in StatStoresOfLen(n - 1), o \in StatOptions}

InitStats ==
    /\ issues \in UNION {StatStoresOfLen(n) : n \in 0..MaxStatIssues}
    /\ milestones = {1}
    /\ repoLabels = Provisioned
    /\ ops = 0
    /\ upd = NoUpd
    /\ ret = NoRet

\* one getAnalytics call; the record keeps the rate the call before it returned
GetAnalytics ==
    \E sprintId \in {0, 1}, today \in StatDays :
        /\ ops < MaxOps
        /\ ops' = ops + 1
        /\ ret' = [op |-> "analytics", sprintId |-> sprintId, today |-> today, err |-> FALSE,
                   stats |-> getAnalytics(sprintId, today),
                   before |-> IF ret.op = "analytics"
                              THEN <<ret.sprintId, ret.stats.completionRate>> ELSE <<>>]
        /\ UNCHANGED <<transport, issues, milestones, repoLabels, upd, codecVars, labelVars>>

NextStats == GetAnalytics

InitSpecStats == transport \in Transports /\ InitStats /\ CodecOff /\ LabelsOff

SpecStats == InitSpecStats /\ [][NextStats]_vars

\* a date text yyyy-mm-dd as the number yyyymmdd
DayNumber(text) ==
    LET d(i) == DigitValue(text[i])
    IN  10000 * (1000 * d(1) + 100 * d(2) + 10 * d(3) + d(4))
        + 100 * (10 * d(6) + d(7)) + 10 * d(9) + d(10)

\* the places of the list whose task counts as overdue on the day
OverduePlaces(list, day) ==
    {i \in 1..Len(list) :
        /\ list[i].due_date.t = "string"
        /\ DayNumber(list[i].due_date.s) < DayNumber(day)
        /\ list[i].status # "done"}

DonePlaces(list) == {i \in 1..Len(list) : list[i].status = "done"}

\* r is the integer nearest to 100 * x / y, a half counted up
NearestPercent(r, x, y) == 2 * r * y - y <= 200 * x /\ 200 * x < 2 * r * y + y

HandMade(n) == [name |-> n, color |-> "ffffff", description |-> ""]

OwnLabels == <<HandMade(L_bug), HandMade(L_tp_custom)>>

\* the repositories: any of the fixed labels, hand-made or as recommended, alone
\* or after the repository's own labels
RepoLabelLists ==
    {own \o [i \in 1..Len(have) |-> IF byHand THEN HandMade(have[i]) ELSE FixedLabel(have[i])] :
        own \in {<<>>, OwnLabels},
        byHand \in BOOLEAN,
        have \in {SelectSeq(AllLabels, LAMBDA n : n \in S) :
                    S \in SUBSET {AllLabels[i] : i \in 1..Len(AllLabels)}}}

InitProvision ==
    /\ issues = <<>>
    /\ milestones = {}
    /\ repoLabels \in RepoLabelLists
    /\ ops = 0
    /\ upd = NoUpd
    /\ ret = NoRet

InitializeRepo ==
    LET out == initializeRepo(repoLabels)
    IN  /\ ops < MaxOps
        /\ ops' = ops + 1
        /\ repoLabels' = out.labels
        /\ ret' = [op |-> "init", err |-> out.err, created |-> out.created,
                   existing |-> out.existing, before |-> repoLabels,
                   again |-> ret.op = "init"]
        /\ UNCHANGED <<transport, issues, milestones, upd, codecVars, labelVars>>

NextProvision == InitializeRepo

InitSpecProvision == transport \in Transports /\ InitProvision /\ CodecOff /\ LabelsOff

SpecProvision == InitSpecProvision /\ [][NextProvision]_vars

\* how many labels of the list carry the name
Named(labels, n) == Cardinality({i \in 1..Len(labels) : labels[i].name = n})

\* C18: after initializeRepo every one of the 8 fixed labels exists exactly once
\* and no other label was added; the call raises no error and reports as created
\* exactly the fixed labels that were missing before it; a call that follows
\* another reports nothing as created and leaves the labels as they were.
C18_Provisioning ==
    ret.op = "init"
    => /\ ~ret.err
       /\ \A i \in 1..Len(AllLabels) : Named(repoLabels, AllLabels[i]) = 1
       /\ NameSet(repoLabels) = NameSet(ret.before) \cup {AllLabels[i] : i \in 1..Len(AllLabels)}
       /\ {ret.created[i] : i \in 1..Len(ret.created)}
              = {AllLabels[i] : i \in 1..Len(AllLabels)} \ NameSet(ret.before)
       /\ ret.again => ret.created = <<>> /\ repoLabels = ret.before

(***************************************************************************)
(* createTask with a priority, a due date and a my_day flag and no status, *)
(* then listTasks({status: 'todo'}).                                       *)
(***************************************************************************)
D_0210 == <<"2", "0", "2", "6", "-", "0", "2", "-", "1", "0">>

NewTaskInputs ==
    {[DefaultOptions EXCEPT !.priority = q, !.due_date = d, !.my_day = VBool(m)] :
        q \in Priorities, d \in {VNull, VStr(D_0210)}, m \in BOOLEAN}

TodoFilter == [NoFilters EXCEPT !.status = "todo"]

CreateNew == \E options \in NewTaskInputs : CreateWith(options)

\* listTasks({status: 'todo'}); the record keeps the call it follows
ListTodo ==
    /\ ops < MaxOps
    /\ ops' = ops + 1
    /\ ret' = [op |-> "list", filters |-> TodoFilter, err |-> FALSE,
               tasks |-> listTasks(TodoFilter),
               after |-> IF ret.op = "create" /\ ~ret.err
                         THEN [op |-> "create", task |-> ret.task] ELSE [op |-> ret.op]]
    /\ UNCHANGED <<transport, issues, milestones, repoLabels, upd, codecVars, labelVars>>

NextCreate == CreateNew \/ ListTodo

SpecCreate == Init /\ [][NextCreate]_vars

\* the list holds the task with that status and priority
Lists(list, task) ==
    \E i \in 1..Len(list) :
        /\ list[i].id = task.id
        /\ list[i].status = task.status
        /\ list[i].priority = task.priority

\* C20: createTask with a priority, due date and my_day flag and no status makes
\* an issue with exactly the labels tp:todo and the priority's label and returns
\* a Task with status todo and the priority, due date and my_day given; the
\* listTasks({status: 'todo'}) call that follows returns that task with the same
\* status and priority.
C20_CreateThenList ==
    /\ (ret.op = "create" /\ ~ret.err)
       => /\ issues[ret.task.id].labels = <<L_todo, PRIORITY_LABELS[ret.options.priority]>>
          /\ ret.task.status = "todo"
          /\ ret.task.priority = ret.options.priority
          /\ ret.task.due_date = ret.options.due_date
          /\ ret.task.my_day = ret.options.my_day
    /\ (ret.op = "list" /\ ret.after.op = "create")
       => /\ ret.after.task.status = "todo"
          /\ Lists(ret.tasks, ret.after.task)

\* the scenario: priority high, due 2026-02-10, my_day false, then the listing
C20_Witness ==
    /\ ret.op = "list"
    /\ ret.after.op = "create"
    /\ ret.after.task.priority = "high"
    /\ ret.after.task.due_date = VStr(D_0210)
    /\ ret.after.task.my_day = VBool(FALSE)
    /\ Lists(ret.tasks, ret.after.task)

(***************************************************************************)
(* issueToTask on the two shapes an issue arrives in.  The gh CLI version   *)
(* reads `gh issue view --json` output (assignees, createdAt, updatedAt,    *)
(* url) in getTask and listTasks and the REST response of `gh api`          *)
(* (assignee and assignees, created_at, updated_at, url, html_url) in       *)
(* createTask and updateTask; the Octokit version reads REST responses      *)
(* only.  An absent property is "" (a login, a time) or <<>> (a link).      *)
(***************************************************************************)
BrowserLink(n) == <<"https://github.com/o/r/issues", n>>

ApiLink(n) == <<"https://api.github.com/repos/o/r/issues", n>>

CreatedAt == "2026-01-01T00:00:00Z"

UpdatedAt == "2026-01-02T00:00:00Z"

\* the issue as `gh issue view --json number,title,body,...` prints it
GhShape(issue) ==
    [issue |-> issue, assignee |-> "", createdAt |-> CreatedAt, created_at |-> "",
     updatedAt |-> UpdatedAt, updated_at |-> "", url |-> BrowserLink(issue.number),
     html_url |-> <<>>]

\* the issue as the REST API returns it: assignee is the first of assignees
RestShape(issue) ==
    [issue |-> issue,
     assignee |-> IF issue.assignees = <<>> THEN "" ELSE issue.assignees[1],
     createdAt |-> "", created_at |-> CreatedAt, updatedAt |-> "", updated_at |-> UpdatedAt,
     url |-> ApiLink(issue.number), html_url |-> BrowserLink(issue.number)]

\* an object with none of the properties that differ between the shapes
BareShape(issue) ==
    [issue |-> [issue EXCEPT !.assignees = <<>>], assignee |-> "", createdAt |-> "",
     created_at |-> "", updatedAt |-> "", updated_at |-> "", url |-> <<>>, html_url |-> <<>>]

Shaped(issue, shape) ==
    CASE shape = "gh" -> GhShape(issue)
      [] shape = "rest" -> RestShape(issue)
      [] shape = "bare" -> BareShape(issue)

\* a || b || none, where none is the absent value of the property: "" or <<>>
Either(a, b, none) == IF a # none THEN a ELSE IF b # none THEN b ELSE none

\* a gh CLI issueToTask that takes url before html_url
issueToTask_gh_url(raw) ==
    [issueToTask(raw.issue) EXCEPT
        !.assignee = Either(IF raw.issue.assignees = <<>> THEN "" ELSE raw.issue.assignees[1],
                            raw.assignee, "")]
    @@ [created_at |-> Either(raw.createdAt, raw.created_at, ""),
        updated_at |-> Either(raw.updatedAt, raw.updated_at, ""),
        html_url |-> Either(raw.url, raw.html_url, <<>>)]

\* issueToTask (gh CLI) with the fields that depend on the shape
issueToTask_gh(raw) ==
    [issueToTask(raw.issue) EXCEPT
        !.assignee = Either(IF raw.issue.assignees = <<>> THEN "" ELSE raw.issue.assignees[1],
                            raw.assignee, "")]
    @@ [created_at |-> Either(raw.createdAt, raw.created_at, ""),
        updated_at |-> Either(raw.updatedAt, raw.updated_at, ""),
        html_url |-> Either(raw.html_url, raw.url, <<>>)]

\* issueToTask (Octokit) with the fields that depend on the shape
issueToTask_octokit(raw) ==
    [issueToTask(raw.issue) EXCEPT !.assignee = raw.assignee]
    @@ [created_at |-> raw.created_at, updated_at |-> raw.updated_at, html_url |-> raw.html_url]

ShapeIssues ==
    {[ForeignIssue(ls) EXCEPT !.assignees = as, !.milestone = m, !.body = b] :
        ls \in {<<L_bug>>, <<L_todo, L_high>>, <<L_done, L_bug>>},
        as \in {<<>>, <<"al">>, <<"al", "bo">>},
        m \in {0, 1},
        b \in {<<>>, createPayload("task", FullOptions).body}}

InitShape ==
    /\ issues \in {<<i>> : i \in ShapeIssues}
    /\ milestones = {1}
    /\ repoLabels = Provisioned
    /\ ops = 0
    /\ upd = NoUpd
    /\ ret = NoRet

\* issueToTask(data) in the gh CLI version, data in any of the shapes
ReadShapeGh ==
    \E shape \in {"gh", "rest", "bare"} :
        /\ transport = "gh"
        /\ ops < MaxOps
        /\ ops' = ops + 1
        /\ ret' = [op |-> "shape", shape |-> shape, err |-> FALSE,
                   task |-> issueToTask_gh(Shaped(issues[1], shape))]
        /\ UNCHANGED <<transport, issues, milestones, repoLabels, upd, codecVars, labelVars>>

\* issueToTask(data) in the Octokit version, data a REST response
ReadShapeOctokit ==
    /\ transport = "octokit"
    /\ ops < MaxOps
    /\ ops' = ops + 1
    /\ ret' = [op |-> "shape", shape |-> "rest", err |-> FALSE,
               task |-> issueToTask_octokit(RestShape(issues[1]))]
    /\ UNCHANGED <<transport, issues, milestones, repoLabels, upd, codecVars, labelVars>>

NextShape == ReadShapeGh \/ ReadShapeOctokit

InitSpecShape == transport \in Transports /\ InitShape /\ CodecOff /\ LabelsOff

SpecShape == InitSpecShape /\ [][NextShape]_vars

\* the fields of a Task that do not come from the metadata block
ShapeFields(task) ==
    [f \in {"id", "title", "status", "priority", "labels", "assignee", "sprint_id",
            "created_at", "updated_at", "html_url"} |-> task[f]]

\* with neither name present the field is empty
BareIsEmpty ==
    /\ ret.task.assignee = ""
    /\ ret.task.created_at = ""
    /\ ret.task.updated_at = ""
    /\ ret.task.html_url = <<>>

\* C23: the Task issueToTask makes of an issue is the same whether the issue
\* arrives in the gh CLI shape or in the REST shape; its assignee is the first
\* of the assignees when there is one; a field with two names is taken from the
\* preferred name, else from the other, else is empty; and on the fields that
\* do not come from the metadata block the Octokit version agrees.
C23_ShapeIndependent ==
    ret.op = "shape"
    => IF ret.shape = "bare" THEN BareIsEmpty
       ELSE /\ transport = "gh" => ret.task = issueToTask_gh(GhShape(issues[1]))
            /\ transport = "gh" => ret.task = issueToTask_gh(RestShape(issues[1]))
            /\ ShapeFields(ret.task) = ShapeFields(issueToTask_gh(GhShape(issues[1])))
            /\ ret.task.assignee
                   = (IF issues[1].assignees = <<>> THEN "" ELSE issues[1].assignees[1])
            /\ ret.task.created_at = CreatedAt
            /\ ret.task.updated_at = UpdatedAt
            /\ ret.task.html_url = BrowserLink(1)

\* a REST response for an issue with two assignees, read by the gh CLI version
C23_Witness ==
    /\ ret.op = "shape"
    /\ ret.shape = "rest"
    /\ transport = "gh"
    /\ issues[1].assignees = <<"al", "bo">>
    /\ ret.task.assignee = "al"
    /\ ret.task.html_url = BrowserLink(1)
    /\ ret.task.tags # VList(<<>>)

(***************************************************************************)
(* The codec on its own: a metadata object and a description are encoded   *)
(* and the body is decoded again.                                          *)
(***************************************************************************)
S_note == <<"n", "o", "t", "e">>

S_hi == <<"h", "i">>

CodecKeys == {S_priority, S_due_date, S_estimated_hours, S_tags, S_my_day, S_note}

CodecValues ==
    {VBool(TRUE), VBool(FALSE), VNull, VInt(0), VInt(12), VNum(2, <<"5">>),
     VList(<<>>), VList(<<<<"a">>, <<"b", "c">>>>), VStr(S_hi)}

\* the object createTask builds for its defaults, and one with every field set
MetaDefault ==
    <<[k |-> S_priority, v |-> VStr(<<"m", "e", "d", "i", "u", "m">>)],
      [k |-> S_due_date, v |-> VNull],
      [k |-> S_estimated_hours, v |-> VInt(0)],
      [k |-> S_actual_hours, v |-> VInt(0)],
      [k |-> S_tags, v |-> VList(<<>>)],
      [k |-> S_my_day, v |-> VBool(FALSE)],
      [k |-> S_parent_task, v |-> VNull]>>

MetaFull ==
    <<[k |-> S_priority, v |-> VStr(<<"h", "i", "g", "h">>)],
      [k |-> S_due_date, v |-> VStr(<<"2", "0", "2", "6", "-", "0", "2", "-", "1", "0">>)],
      [k |-> S_estimated_hours, v |-> VNum(2, <<"5">>)],
      [k |-> S_actual_hours, v |-> VInt(1)],
      [k |-> S_tags, v |-> VList(<<<<"a">>, <<"b", "c">>>>)],
      [k |-> S_my_day, v |-> VBool(TRUE)],
      [k |-> S_parent_task, v |-> VInt(7)]>>

CodecMetas ==
    {<<>>, MetaDefault, MetaFull}
    \cup {<<[k |-> key, v |-> val]>> : key \in CodecKeys, val \in CodecValues}

CodecDescs == {<<>>, <<"x">>, <<"x", NL, "y", " ", "z">>, <<" ", "x">>, <<"x", NL>>}

\* the values the codec is specified for
SupportedValue(v) ==
    /\ v.t \in {"boolean", "null", "number", "array", "string"}
    /\ v.t = "array" => \A i \in 1..Len(v.l) : v.l[i] # <<>> /\ Trim(v.l[i]) = v.l[i]

\* the description holds no "---" at the start of a line
NoDelimiterLine(d) ==
    ~StartsWith(d, S_delim) /\ IndexOf(d, <<NL>> \o S_delim, 1) = 0

InitCodec ==
    /\ c_pc = "in"
    /\ c_meta \in CodecMetas
    /\ c_desc \in CodecDescs
    /\ c_body = <<>>
    /\ c_out = [meta |-> <<>>, description |-> <<>>]

\* body = buildYamlFrontMatter(meta, description)
Encode ==
    /\ c_pc = "in"
    /\ IF buildThrows(c_meta)
       THEN c_pc' = "threw" /\ c_body' = c_body
       ELSE c_pc' = "built" /\ c_body' = buildYamlFrontMatter(c_meta, c_desc)
    /\ UNCHANGED <<transport, c_meta, c_desc, c_out, labelVars, storeVars>>

\* { meta, description } = parseYamlFrontMatter(body)
Decode ==
    /\ c_pc = "built"
    /\ c_out' = parseYamlFrontMatter(c_body)
    /\ c_pc' = "parsed"
    /\ UNCHANGED <<transport, c_meta, c_desc, c_body, labelVars, storeVars>>

NextCodec == Encode \/ Decode

InitSpecCodec == transport \in Transports /\ InitCodec /\ LabelsOff /\ StoreOff

SpecCodec == InitSpecCodec /\ [][NextCodec]_vars

\* C1: decoding an encoded (metadata, description) pair gives the pair back, for
\* every metadata object of supported values and every description without a
\* delimiter line.
C1_RoundTrip ==
    (/\ c_pc = "parsed"
     /\ \A i \in 1..Len(c_meta) : SupportedValue(c_meta[i].v)
     /\ NoDelimiterLine(c_desc))
    => SameObject(c_out.meta, c_meta) /\ c_out.description = c_desc

\* the line the format gives a metadata entry, if any: none for an absent
\* optional field (null, or an empty list), brackets around a list
FormatLines(e) ==
    CASE e.v.t = "null" -> <<>>
      [] e.v.t = "array" ->
            IF e.v.l = <<>> THEN <<>>
            ELSE <<e.k \o <<":", " ", "[">> \o Join(e.v.l, <<",", " ">>) \o <<"]">>>>
      [] e.v.t = "boolean" -> <<e.k \o <<":", " ">> \o (IF e.v.b THEN S_true ELSE S_false)>>
      [] OTHER -> <<e.k \o <<":", " ">> \o ToStr(e.v)>>

RECURSIVE FormatAll(_)
FormatAll(meta) == IF meta = <<>> THEN <<>> ELSE FormatLines(meta[1]) \o FormatAll(Tail(meta))

\* C19: the body buildYamlFrontMatter returns for a metadata object createTask
\* builds is a '---' line, the key: value lines in the fixed order, a '---'
\* line, a blank line and the description; a list is written in brackets, a
\* boolean as true or false, and an absent optional field has no line.
C19_BodyFormat ==
    (c_pc = "built" /\ c_meta \in {MetaDefault, MetaFull})
    => LET lines == Split(c_body, NL)
           n == Len(FormatAll(c_meta))
       IN  /\ Len(lines) >= n + 4
           /\ lines[1] = S_delim
           /\ SubSeq(lines, 2, n + 1) = FormatAll(c_meta)
           /\ lines[n + 2] = S_delim
           /\ lines[n + 3] = <<>>
           /\ Join(SubSeq(lines, n + 4, Len(lines)), <<NL>>) = c_desc

(***************************************************************************)
(* updateTask on an issue whose metadata block holds a key that            *)
(* TaskPlanner does not know.                                              *)
(***************************************************************************)
NoteLine == KeyLine(S_note, S_hi)

\* a body whose block holds the given lines, followed by the description "x"
BodyOf(lines) == Join(<<S_delim>> \o lines \o <<S_delim, <<>>, <<"x">>>>, <<NL>>)

NotedIssue(lines) ==
    [ForeignIssue(<<L_todo, L_medium>>) EXCEPT !.title = "task", !.body = BodyOf(lines)]

NotedStores ==
    {<<NotedIssue(lines)>> :
        lines \in {<<NoteLine>>,
                   <<KeyLine(S_priority, <<"l", "o", "w">>), NoteLine>>,
                   <<NoteLine, KeyLine(S_my_day, S_true)>>}}

InitNoted ==
    /\ issues \in NotedStores
    /\ milestones = {1}
    /\ repoLabels = Provisioned
    /\ ops = 1
    /\ upd = NoUpd
    /\ ret = NoRet

UpdateNoted == \E updates \in FieldInputs : UpdateWith(1, updates)

NextNoted == UpdateNoted

InitSpecNoted == transport \in Transports /\ InitNoted /\ CodecOff /\ LabelsOff

SpecNoted == InitSpecNoted /\ [][NextNoted]_vars

\* the lines of the metadata block of a body
BlockLines(body) ==
    IF FrontMatterMatch(body).matched THEN Split(FrontMatterMatch(body).yaml, NL) ELSE <<>>

\* C27: if the metadata block of an issue body holds a key other than the seven
\* known ones, then after updateTask(id, updates) the block of the new body
\* still holds that key with the same value.
C27_UnknownKeysSurvive ==
    (Updated /\ Includes(BlockLines(ret.before.body), NoteLine))
    => Includes(BlockLines(issues[ret.id].body), NoteLine)

(***************************************************************************)
(* Complete then reopen: updateTask(id, {status: 'done'}) followed by      *)
(* updateTask(id, {status: s}), the reopen command being the case s = todo.*)
(***************************************************************************)
OpenStatuses == {"todo", "in-progress", "blocked"}

InitReopen ==
    /\ issues \in UpdateStores \cup NotedStores
    /\ milestones = {1}
    /\ repoLabels = Provisioned
    /\ ops = 0
    /\ upd = NoUpd
    /\ ret = NoRet

\* updateTask(1, {status: 'done'}); ret keeps the issue as it was before the call
CompleteTask ==
    /\ ~upd.busy
    /\ ops < MaxOps
    /\ ops' = ops + 1
    /\ IF updateFails(issues[1], [status |-> "done"])
       THEN /\ ret' = [op |-> "complete", id |-> 1, err |-> TRUE]
            /\ UNCHANGED issues
       ELSE /\ issues' = [issues EXCEPT ![1] = Patched(issues[1], issues[1], [status |-> "done"])]
            /\ ret' = [op |-> "complete", id |-> 1, err |-> FALSE, orig |-> issues[1]]
    /\ UNCHANGED <<transport, milestones, repoLabels, upd, codecVars, labelVars>>

\* updateTask(1, {status: s}) right after the completing call
ReopenTask ==
    \E s \in OpenStatuses :
        /\ ~upd.busy
        /\ ops < MaxOps
        /\ ret.op = "complete" /\ ~ret.err
        /\ ops' = ops + 1
        /\ IF updateFails(issues[1], [status |-> s])
           THEN /\ ret' = [op |-> "reopen", id |-> 1, err |-> TRUE]
                /\ UNCHANGED issues
           ELSE /\ issues' = [issues EXCEPT ![1] = Patched(issues[1], issues[1], [status |-> s])]
                /\ ret' = [op |-> "reopen", id |-> 1, err |-> FALSE, status |-> s,
                           orig |-> ret.orig]
        /\ UNCHANGED <<transport, milestones, repoLabels, upd, codecVars, labelVars>>

NextReopen == CompleteTask \/ ReopenTask

InitSpecReopen == transport \in Transports /\ InitReopen /\ CodecOff /\ LabelsOff

SpecReopen == InitSpecReopen /\ [][NextReopen]_vars

Reopened == ret.op = "reopen" /\ ~ret.err

\* the fields of a task that come from the metadata block
MetaFields(issue) ==
    LET t == issueToTask(issue)
    IN  <<t.due_date, t.my_day, t.estimated_hours, t.actual_hours, t.tags, t.parent_task, t.body>>

ListedWithStatus(id, s) ==
    \E i \in 1..Len(listTasks(NoFilters)) :
        listTasks(NoFilters)[i].id = id /\ listTasks(NoFilters)[i].status = s

\* C28: after updateTask(id, {status: 'done'}) followed by updateTask(id,
\* {status: s}) with s one of todo, in-progress, blocked, the issue is open, it
\* carries exactly the status label of s, its metadata and its other labels are
\* as before the first update, and listTasks() returns it with status s.
C28_CompleteThenReopen ==
    Reopened
    => /\ issues[ret.id].state = "open"
       /\ StatusLabelsOf(issues[ret.id].labels) = <<STATUS_LABELS[ret.status]>>
       /\ Members(issues[ret.id].labels) \ StatusLabelNames
              = Members(ret.orig.labels) \ StatusLabelNames
       /\ MetaFields(issues[ret.id]) = MetaFields(ret.orig)
       /\ ListedWithStatus(ret.id, ret.status)

(***************************************************************************)
(* updateTask applied a second time with the same updates.                 *)
(***************************************************************************)
\* C29: with no other writer, applying updateTask(id, u) twice in a row leaves
\* the issue (labels, body, state, assignees, milestone) and the task returned
\* as applying it once.
C29_UpdateIdempotent ==
    Updated
    => /\ ~updateFails(issues[ret.id], ret.updates)
       /\ Patched(issues[ret.id], issues[ret.id], ret.updates) = issues[ret.id]
       /\ issueToTask(Patched(issues[ret.id], issues[ret.id], ret.updates)) = ret.task

====
